---------------------------- MODULE Spec2Model ----------------------------
(***************************************************************************)
(* Knowledge ingestion core of cherry-studio:                              *)
(*   - the metadata store (document_metadata table, KnowledgeMetadataStore)*)
(*   - KnowledgeService: the task factory (file / directory / url /        *)
(*     sitemap / note tasks) and the processing scheduler                  *)
(*     (processingQueueHandle, appendProcessingQueue, add);                *)
(*   - the revision of KnowledgeService with the incrementalUpdate option  *)
(*     and its file_metadata table (definitions with suffix B, SpecB).     *)
(* Every await of a unit of work is one step of that item, so the items of *)
(* all registered task groups interleave as the event loop allows.         *)
(***************************************************************************)
EXTENDS Integers, Sequences, FiniteSets, TLC

VARIABLES
  workload,                \* KnowledgeService.workload (bytes)
  processingItemCount,     \* KnowledgeService.processingItemCount
  knowledgeItemProcessingQueueMappingPromise,
                           \* Map<LoaderTaskOfSet, resolve>, insertion order
  calls,                   \* one entry per call of the service: its promise
  document_metadata,       \* rows of the document_metadata table, rowid order
  file_metadata,           \* rows of the file_metadata table, rowid order
  rag,                     \* loaders held by the embedding backend
  disk,                    \* the file system the service reads
  faults,                  \* failures of external calls injected so far
  envSteps                 \* file-system changes made so far

vars == <<workload, processingItemCount,
          knowledgeItemProcessingQueueMappingPromise, calls,
          document_metadata, file_metadata, rag, disk, faults, envSteps>>

---------------------------------------------------------------------------
(* Bounds of the model *)

\* calls of the service per behaviour
MaxAdds == 2
\* failures of external calls (hash stream, store, backend) per behaviour
MaxFaults == 1
\* changes of the file system per behaviour
MaxEnvSteps == 1
\* MAXIMUM_PROCESSING_ITEM_COUNT is 30 in the source; the model runs the same
\* comparison with a small cap so that the cap is reached by a handful of items
MAXIMUM_PROCESSING_ITEM_COUNT == 2

---------------------------------------------------------------------------
(* Program constants *)

MB == 1048576
MAXIMUM_WORKLOAD == 80 * MB
ERROR_LOADER_RETURN ==
  [entriesAdded |-> 0, uniqueId |-> "", uniqueIds |-> <<"">>, loaderType |-> ""]

PENDING == "PENDING"
PROCESSING == "PROCESSING"

---------------------------------------------------------------------------
(* The world the service runs in *)

Bases == {"kb1"}
SEP == "/"
DirD == <<"/", "d">>
FileA == <<"/", "d", "/", "a">>
FileB == <<"/", "d", "/", "b">>
FilePaths == {FileA, FileB}
\* getAllFiles lists a directory in a fixed order
ListingOrder == <<FileA, FileB>>
\* the file that changes on disk between runs
VolatilePaths == {FileB}
\* sizes in bytes: FileA fits under MAXIMUM_WORKLOAD, FileB alone exceeds it
DiskSize(p) == IF p = FileA THEN 50 * MB ELSE 100 * MB
\* note texts as the UTF-16 code units of a JavaScript string: "ab", "e" with
\* an acute accent (U+00E9), and U+1F600 as its surrogate pair
NoteAB == <<97, 98>>
NoteEAcute == <<233>>
NoteEmoji == <<55357, 56832>>
NoteTexts == {NoteAB, NoteEAcute, NoteEmoji}
\* unique ids the embedding backend hands out
Uids == {"u1", "u2"}

Other(x) == 3 - x

HashOf(ver) == IF ver = 1 THEN "sha-v1" ELSE "sha-v2"

---------------------------------------------------------------------------
(* KnowledgeMetadataStore: the document_metadata table.  A table is the     *)
(* sequence of its rows in rowid order; a query returns rows in that order. *)

Lower(c) ==
  CASE c = "A" -> "a" [] c = "B" -> "b" [] c = "D" -> "d" [] OTHER -> c

\* SQLite's LIKE: % matches any run of characters, _ any one character,
\* letters compare without regard to case
RECURSIVE Like(_, _)
Like(pattern, str) ==
  IF pattern = <<>> THEN str = <<>>
  ELSE IF Head(pattern) = "%"
    THEN Like(Tail(pattern), str) \/ (str # <<>> /\ Like(pattern, Tail(str)))
  ELSE IF str = <<>> THEN FALSE
  ELSE /\ (Head(pattern) = "_" \/ Lower(Head(pattern)) = Lower(Head(str)))
       /\ Like(Tail(pattern), Tail(str))

HasKey(table, kb, file_path) ==
  \E i \in DOMAIN table :
    table[i].knowledge_base_id = kb /\ table[i].file_path = file_path

\* a write that inserts without looking for the key
insertBlind(table, metadata) == Append(table, metadata)

\* INSERT ... ON CONFLICT(knowledge_base_id, file_path) DO UPDATE SET ...
addOrUpdateMetadata(table, metadata) ==
  IF HasKey(table, metadata.knowledge_base_id, metadata.file_path)
  THEN [i \in DOMAIN table |->
          IF /\ table[i].knowledge_base_id = metadata.knowledge_base_id
             /\ table[i].file_path = metadata.file_path
          THEN [table[i] EXCEPT
                  !.content_hash = metadata.content_hash,
                  !.unique_id_embedjs = metadata.unique_id_embedjs,
                  !.loader_type = metadata.loader_type,
                  !.last_modified_timestamp = metadata.last_modified_timestamp]
          ELSE table[i]]
  ELSE Append(table, metadata)

\* SELECT * ... WHERE knowledge_base_id = ? AND file_path = ?  -> rows[0] or null
getMetadataByPath(table, kb, file_path) ==
  LET Match(r) == r.knowledge_base_id = kb /\ r.file_path = file_path
      rows == SelectSeq(table, Match)
  IN IF Len(rows) > 0 THEN <<rows[1]>> ELSE <<>>

getMetadataByEmbedjsUniqueId(table, kb, uid) ==
  LET Match(r) == r.knowledge_base_id = kb /\ r.unique_id_embedjs = uid
      rows == SelectSeq(table, Match)
  IN IF Len(rows) > 0 THEN <<rows[1]>> ELSE <<>>

deleteMetadata(table, kb, file_path) ==
  LET Keep(r) == ~(r.knowledge_base_id = kb /\ r.file_path = file_path)
  IN SelectSeq(table, Keep)

deleteMetadataByEmbedjsUniqueId(table, kb, uid) ==
  LET Keep(r) == ~(r.knowledge_base_id = kb /\ r.unique_id_embedjs = uid)
  IN SelectSeq(table, Keep)

getMetadataByDirectoryPath(table, kb, directory_path) ==
  LET normalizedPath ==
        IF directory_path # <<>> /\ directory_path[Len(directory_path)] = SEP
        THEN directory_path ELSE directory_path \o <<SEP>>
      Match(r) == /\ r.knowledge_base_id = kb
                  /\ Like(normalizedPath \o <<"%">>, r.file_path)
  IN SelectSeq(table, Match)

---------------------------------------------------------------------------
(* The scheduler *)

Q == knowledgeItemProcessingQueueMappingPromise

\* a load test that looks at the byte estimate only
maximumLoadWorkloadOnly(count, load) == load >= MAXIMUM_WORKLOAD

\* a load test that reports the maximum one item before the item cap
maximumLoadOneShort(count, load) ==
  count >= MAXIMUM_PROCESSING_ITEM_COUNT - 1 \/ load >= MAXIMUM_WORKLOAD

maximumLoad(count, load) ==
  count >= MAXIMUM_PROCESSING_ITEM_COUNT \/ load >= MAXIMUM_WORKLOAD

\* a scan that defers every item whose estimate would take the workload
\* above the cap
RECURSIVE AdmitItemsWithinCap(_, _, _)
AdmitItemsWithinCap(items, load, count) ==
  IF items = <<>>
  THEN [items |-> <<>>, load |-> load, count |-> count, stop |-> FALSE]
  ELSE IF \/ count >= MAXIMUM_PROCESSING_ITEM_COUNT
          \/ /\ Head(items).state = PENDING
             /\ load + Head(items).workload > MAXIMUM_WORKLOAD
  THEN [items |-> items, load |-> load, count |-> count, stop |-> TRUE]
  ELSE LET item == Head(items)
           admit == item.state = PENDING
           rest == AdmitItemsWithinCap(Tail(items),
                              IF admit THEN load + item.workload ELSE load,
                              IF admit THEN count + 1 ELSE count)
       IN [rest EXCEPT !.items =
             <<IF admit THEN [item EXCEPT !.state = PROCESSING] ELSE item>>
             \o rest.items]

\* a scan that admits an item whatever its state
RECURSIVE AdmitItemsAnyState(_, _, _)
AdmitItemsAnyState(items, load, count) ==
  IF items = <<>>
  THEN [items |-> <<>>, load |-> load, count |-> count, stop |-> FALSE]
  ELSE IF maximumLoad(count, load)
  THEN [items |-> items, load |-> load, count |-> count, stop |-> TRUE]
  ELSE LET item == Head(items)
           rest == AdmitItemsAnyState(Tail(items), load + item.workload,
                                      count + 1)
       IN [rest EXCEPT !.items =
             <<[item EXCEPT !.state = PROCESSING]>> \o rest.items]

\* a scan that passes over a PENDING item whose estimate would take the
\* workload above the cap and goes on to the items behind it
RECURSIVE AdmitItemsFitting(_, _, _)
AdmitItemsFitting(items, load, count) ==
  IF items = <<>>
  THEN [items |-> <<>>, load |-> load, count |-> count, stop |-> FALSE]
  ELSE IF maximumLoad(count, load)
  THEN [items |-> items, load |-> load, count |-> count, stop |-> TRUE]
  ELSE LET item == Head(items)
           admit == /\ item.state = PENDING
                    /\ load + item.workload <= MAXIMUM_WORKLOAD
           rest == AdmitItemsFitting(Tail(items),
                              IF admit THEN load + item.workload ELSE load,
                              IF admit THEN count + 1 ELSE count)
       IN [rest EXCEPT !.items =
             <<IF admit THEN [item EXCEPT !.state = PROCESSING] ELSE item>>
             \o rest.items]

\* The inner loop of getSubtasksUntilMaximumLoad over one group's items:
\* every PENDING item met before the load is at its maximum becomes
\* PROCESSING and adds its estimate to the counters.
RECURSIVE AdmitItems(_, _, _)
AdmitItems(items, load, count) ==
  IF items = <<>>
  THEN [items |-> <<>>, load |-> load, count |-> count, stop |-> FALSE]
  ELSE IF maximumLoad(count, load)
  THEN [items |-> items, load |-> load, count |-> count, stop |-> TRUE]
  ELSE LET item == Head(items)
           admit == item.state = PENDING
           rest == AdmitItems(Tail(items),
                              IF admit THEN load + item.workload ELSE load,
                              IF admit THEN count + 1 ELSE count)
       IN [rest EXCEPT !.items =
             <<IF admit THEN [item EXCEPT !.state = PROCESSING] ELSE item>>
             \o rest.items]

\* getSubtasksUntilMaximumLoad: the groups in registration order; "break that"
\* leaves every later item and group as it is.
RECURSIVE getSubtasksUntilMaximumLoad(_, _, _)
getSubtasksUntilMaximumLoad(queue, load, count) ==
  IF queue = <<>>
  THEN [queue |-> <<>>, load |-> load, count |-> count]
  ELSE LET task == Head(queue)
           inner == AdmitItems(task.loaderTasks, load, count)
           task2 == [task EXCEPT !.loaderTasks = inner.items]
       IN IF inner.stop
          THEN [queue |-> <<task2>> \o Tail(queue),
                load |-> inner.load, count |-> inner.count]
          ELSE LET rest == getSubtasksUntilMaximumLoad(Tail(queue),
                                                       inner.load, inner.count)
               IN [rest EXCEPT !.queue = <<task2>> \o rest.queue]

\* processingQueueHandle: admit, then start every admitted unit of work (a
\* started unit of work is an item in PROCESSING state at its first step)
processingQueueHandle(queue, load, count) ==
  LET r == getSubtasksUntilMaximumLoad(queue, load, count)
  IN /\ knowledgeItemProcessingQueueMappingPromise' = r.queue
     /\ workload' = r.load
     /\ processingItemCount' = r.count

\* a continuation that resolves its group whatever is left of it
groupDoneAlways(loaderTasks) == TRUE
\* a continuation that gives no bytes back
releaseNothing(load, itemWorkload) == load

\* the test after an item is dropped: was it the last one of its group
groupDone(loaderTasks) == loaderTasks = <<>>

\* what the continuation gives back to the counters
releaseWorkload(load, itemWorkload) == load - itemWorkload
releaseItem(count) == count - 1

RemoveAt(seq, k) == SubSeq(seq, 1, k - 1) \o SubSeq(seq, k + 1, Len(seq))

NewItem(n, kind, load, pc, file) ==
  [idx |-> n, state |-> PENDING, kind |-> kind, workload |-> load, pc |-> pc,
   path |-> file.path, size |-> file.size, lastModified |-> file.lastModified,
   fileHash |-> "", existingMetadata |-> <<>>, result |-> <<>>,
   allMetadataInDir |-> <<>>, value |-> <<>>,
   fileIndex |-> 0, currentEntriesAdded |-> 0, currentUniqueIds |-> <<>>,
   backendCalls |-> 0, storeWrites |-> 0]

NoFile == [path |-> <<>>, size |-> 0, lastModified |-> 0]

NewTask(gid, base, forceReload, items, loaderDoneReturn) ==
  [gid |-> gid, base |-> base, forceReload |-> forceReload,
   loaderTasks |-> items, loaderDoneReturn |-> loaderDoneReturn,
   directory |-> <<>>, files |-> <<>>, totalFiles |-> 0, processedFiles |-> 0,
   currentFilePaths |-> {}, percentSent |-> <<>>, content |-> <<>>]

\* The continuation the scheduler chains to an admitted unit of work
\* (taskPromise().then(...)): free the item's share, drop the item, resolve
\* the group when it is empty, and scan again.
CompleteItem(gi, k) ==
  LET task == Q[gi]
      item == task.loaderTasks[k]
      left == RemoveAt(task.loaderTasks, k)
      queue2 == IF groupDone(left) THEN RemoveAt(Q, gi)
                ELSE [Q EXCEPT ![gi].loaderTasks = left]
  IN /\ item.state = PROCESSING
     /\ item.pc = "returned"
     /\ calls' = IF groupDone(left)
                 THEN [calls EXCEPT ![task.gid].settled = TRUE,
                                    ![task.gid].value = task.loaderDoneReturn]
                 ELSE calls
     /\ processingQueueHandle(queue2,
                              releaseWorkload(workload, item.workload),
                              releaseItem(processingItemCount))
     /\ UNCHANGED <<document_metadata, file_metadata, rag, disk, faults,
                    envSteps>>

---------------------------------------------------------------------------
(* The task factory (service with the document_metadata store) *)

\* what the backend answers to an accepted add: a unique id out of Uids
LoaderResult(uid, loaderType) ==
  [entriesAdded |-> 1, uniqueId |-> uid, uniqueIds |-> <<uid>>,
   loaderType |-> loaderType]

fileTask(gid, base, file, forceReload) ==
  NewTask(gid, base, forceReload,
          <<NewItem(1, "file", file.size, "calculateFileHash", file)>>, <<>>)

urlTask(gid, base, forceReload) ==
  NewTask(gid, base, forceReload,
          <<NewItem(1, "url", 2 * MB, "addLoader", NoFile)>>, <<>>)

sitemapTask(gid, base, forceReload) ==
  NewTask(gid, base, forceReload,
          <<NewItem(1, "sitemap", 20 * MB, "addLoader", NoFile)>>, <<>>)

\* new TextEncoder().encode(content): the UTF-8 bytes of the text, a
\* surrogate pair as one code point of four bytes, a lone surrogate as U+FFFD
HighSurrogate(unit) == unit >= 55296 /\ unit <= 56319
LowSurrogate(unit) == unit >= 56320 /\ unit <= 57343

Utf8(cp) ==
  IF cp < 128 THEN <<cp>>
  ELSE IF cp < 2048 THEN <<192 + (cp \div 64), 128 + (cp % 64)>>
  ELSE IF cp < 65536
    THEN <<224 + (cp \div 4096), 128 + ((cp \div 64) % 64), 128 + (cp % 64)>>
  ELSE <<240 + (cp \div 262144), 128 + ((cp \div 4096) % 64),
         128 + ((cp \div 64) % 64), 128 + (cp % 64)>>

\* an encoder that writes one byte for every code unit
encodeUnits(content) == content

RECURSIVE encode(_)
encode(content) ==
  IF content = <<>> THEN <<>>
  ELSE IF /\ HighSurrogate(Head(content))
          /\ Len(content) > 1
          /\ LowSurrogate(content[2])
  THEN Utf8(65536 + (Head(content) - 55296) * 1024 + (content[2] - 56320))
       \o encode(Tail(Tail(content)))
  ELSE IF HighSurrogate(Head(content)) \/ LowSurrogate(Head(content))
  THEN Utf8(65533) \o encode(Tail(content))
  ELSE Utf8(Head(content)) \o encode(Tail(content))

noteTask(gid, base, content, forceReload) ==
  LET contentBytes == encode(content)
  IN [NewTask(gid, base, forceReload,
              <<NewItem(1, "note", Len(contentBytes), "addLoader", NoFile)>>,
              <<>>)
        EXCEPT !.content = content]

\* getAllFiles(directory): the files now on disk below the directory, in
\* listing order, each with the size and modification time statSync reports
RECURSIVE IsPrefix(_, _)
IsPrefix(pre, str) ==
  IF pre = <<>> THEN TRUE
  ELSE IF str = <<>> THEN FALSE
  ELSE Head(pre) = Head(str) /\ IsPrefix(Tail(pre), Tail(str))

Below(p, directory) ==
  IsPrefix(IF directory[Len(directory)] = SEP THEN directory
           ELSE directory \o <<SEP>>, p)

getAllFiles(directory) ==
  LET here(p) == disk[p].present /\ Below(p, directory)
      paths == SelectSeq(ListingOrder, here)
  IN [i \in 1..Len(paths) |->
        [path |-> paths[i], size |-> DiskSize(paths[i]),
         lastModified |-> disk[paths[i]].mtime]]

aggregateLoaderDoneReturn ==
  [entriesAdded |-> 0, uniqueId |-> "DirectoryLoader_uuid", uniqueIds |-> <<>>,
   loaderType |-> "DirectoryLoader"]

\* a factory that makes items only for files without a stored record
directoryTaskNewOnly(gid, base, directory, forceReload) ==
  LET unknown(f) == ~HasKey(document_metadata[base], base, f.path)
      files == SelectSeq(getAllFiles(directory), unknown)
      n == Len(files)
      fileItems == [i \in 1..n |->
                      NewItem(i, "dirfile", files[i].size, "calculateFileHash",
                              files[i])]
      deletionItem == NewItem(n + 1, "delscan", 1 * MB,
                              "getMetadataByDirectoryPath", NoFile)
  IN [NewTask(gid, base, forceReload, fileItems \o <<deletionItem>>,
              <<aggregateLoaderDoneReturn>>)
        EXCEPT !.directory = directory,
               !.files = files,
               !.totalFiles = n,
               !.currentFilePaths = {files[i].path : i \in 1..n}]

directoryTask(gid, base, directory, forceReload) ==
  LET files == getAllFiles(directory)
      n == Len(files)
      fileItems == [i \in 1..n |->
                      NewItem(i, "dirfile", files[i].size, "calculateFileHash",
                              files[i])]
      deletionItem == NewItem(n + 1, "delscan", 1 * MB,
                              "getMetadataByDirectoryPath", NoFile)
  IN [NewTask(gid, base, forceReload, fileItems \o <<deletionItem>>,
              <<aggregateLoaderDoneReturn>>)
        EXCEPT !.directory = directory,
               !.files = files,
               !.totalFiles = n,
               !.currentFilePaths = {files[i].path : i \in 1..n}]

\* a switch whose default branch makes a url task
TaskOfAnyType(gid, base, item, forceReload) ==
  <<urlTask(gid, base, forceReload)>>

\* the switch of add(): the task of the item, or none for an unknown type
TaskOf(gid, base, item, forceReload) ==
  CASE item.type = "file" -> <<fileTask(gid, base, item.content, forceReload)>>
    [] item.type = "directory" ->
         <<directoryTask(gid, base, item.content, forceReload)>>
    [] item.type = "url" -> <<urlTask(gid, base, forceReload)>>
    [] item.type = "sitemap" -> <<sitemapTask(gid, base, forceReload)>>
    [] item.type = "note" -> <<noteTask(gid, base, item.content, forceReload)>>
    [] OTHER -> <<>>

\* appendProcessingQueue: the group joins the map behind the groups already
\* registered; its promise is pending
appendProcessingQueue(queue, task) == Append(queue, task)

\* the promise add() returns, with the type of the item it was called for
Resolved(type, value) == [type |-> type, settled |-> TRUE, value |-> value]
Unsettled(type) == [type |-> type, settled |-> FALSE, value |-> <<>>]

\* add() once the switch has made the task, or none: the promise resolves
\* with the sentinel when the backend application cannot be built or the type
\* is unknown; otherwise the task is registered and the scan runs
submit(type, task, buildOk) ==
  /\ Len(calls) < MaxAdds
  /\ IF ~buildOk
     THEN /\ faults < MaxFaults
          /\ faults' = faults + 1
          /\ calls' = Append(calls, Resolved(type, <<ERROR_LOADER_RETURN>>))
          /\ UNCHANGED <<workload, processingItemCount,
                         knowledgeItemProcessingQueueMappingPromise>>
     ELSE IF task = <<>>
     THEN /\ calls' = Append(calls, Resolved(type, <<ERROR_LOADER_RETURN>>))
          /\ UNCHANGED <<workload, processingItemCount,
                         knowledgeItemProcessingQueueMappingPromise, faults>>
     ELSE /\ calls' = Append(calls, Unsettled(type))
          /\ processingQueueHandle(appendProcessingQueue(Q, task[1]),
                                   workload, processingItemCount)
          /\ UNCHANGED faults
  /\ UNCHANGED <<document_metadata, file_metadata, rag, disk, envSteps>>

add(base, item, forceReload, buildOk) ==
  submit(item.type, TaskOf(Len(calls) + 1, base, item, forceReload), buildOk)

---------------------------------------------------------------------------
(* Units of work.  Each disjunct is the code between two awaits. *)

SetItem(gi, k, item) == [Q EXCEPT ![gi].loaderTasks[k] = item]
SetItemAndReturn(gi, k, item, loaderDoneReturn) ==
  [Q EXCEPT ![gi].loaderTasks[k] = item,
            ![gi].loaderDoneReturn = loaderDoneReturn]

Running(gi, k, kind) ==
  /\ Q[gi].loaderTasks[k].kind = kind
  /\ Q[gi].loaderTasks[k].state = PROCESSING

Fault == faults < MaxFaults /\ faults' = faults + 1

\* the task of urlTask, sitemapTask and noteTask: addLoader(...).then(set
\* loaderDoneReturn).catch(log, return ERROR_LOADER_RETURN)
addLoaderTask(gi, k, kind, loaderType) ==
  LET task == Q[gi]
      item == task.loaderTasks[k]
  IN /\ Running(gi, k, kind)
     /\ item.pc = "addLoader"
     /\ \/ \E uid \in Uids :
             /\ rag' = [rag EXCEPT ![task.base] = @ \cup {uid}]
             /\ knowledgeItemProcessingQueueMappingPromise' =
                  SetItemAndReturn(gi, k,
                    [item EXCEPT !.pc = "returned",
                                 !.value = <<LoaderResult(uid, loaderType)>>,
                                 !.backendCalls = @ + 1],
                    <<LoaderResult(uid, loaderType)>>)
             /\ UNCHANGED faults
        \/ /\ Fault
           /\ knowledgeItemProcessingQueueMappingPromise' =
                SetItem(gi, k, [item EXCEPT !.pc = "returned",
                                            !.value = <<ERROR_LOADER_RETURN>>,
                                            !.backendCalls = @ + 1])
           /\ UNCHANGED rag
     /\ UNCHANGED <<workload, processingItemCount, calls, document_metadata,
                    file_metadata,
                    disk, envSteps>>

urlTaskRun(gi, k) == addLoaderTask(gi, k, "url", "WebLoader")
sitemapTaskRun(gi, k) == addLoaderTask(gi, k, "sitemap", "SitemapLoader")
noteTaskRun(gi, k) == addLoaderTask(gi, k, "note", "TextLoader")

\* the three decisions of the file pipeline
skipNever(existingMetadata, forceReload, fileHash) == FALSE

skipUnchanged(existingMetadata, forceReload, fileHash) ==
  /\ existingMetadata # <<>>
  /\ ~forceReload
  /\ existingMetadata[1].content_hash = fileHash

\* a pipeline that never deletes what it replaces
updateNever(existingMetadata, forceReload, fileHash) == FALSE

updateExisting(existingMetadata, forceReload, fileHash) ==
  /\ existingMetadata # <<>>
  /\ (forceReload \/ existingMetadata[1].content_hash # fileHash)

validResult(result) ==
  result.uniqueId # "" /\ result.loaderType # ""

SkippedUnchanged(uid) ==
  [entriesAdded |-> 0, uniqueId |-> uid, uniqueIds |-> <<uid>>,
   loaderType |-> "SkippedUnchanged"]

\* sendDirectoryProcessingPercent(totalFiles, processedFiles): the counts of
\* the message sent to the main window, percent = processed / total * 100
sendDirectoryProcessingPercent(task, totalFilesCount, processedFilesCount) ==
  [task EXCEPT !.percentSent =
     Append(@, [totalFilesCount |-> totalFilesCount,
                processedFilesCount |-> processedFilesCount])]

\* a count that is kept and never sent
countSilently(task) == [task EXCEPT !.processedFiles = @ + 1]

\* processedFiles += 1; sendDirectoryProcessingPercent(totalFiles, processedFiles)
fileProcessed(task) ==
  sendDirectoryProcessingPercent([task EXCEPT !.processedFiles = @ + 1],
                                 task.totalFiles, task.processedFiles + 1)

\* what a finished file decision leaves in its task group.  fileTask sets the
\* group's loaderDoneReturn; an item of directoryTask adds to the directory's
\* aggregate and counts the file as processed.
onSkipped(task, kind, uid) ==
  IF kind = "file"
  THEN [task EXCEPT !.loaderDoneReturn = <<SkippedUnchanged(uid)>>]
  ELSE fileProcessed([task EXCEPT
          !.loaderDoneReturn[1].uniqueIds = Append(@, uid)])

\* an added file that the aggregate does not count
onAddedUncounted(task, kind, result) ==
  IF kind = "file"
  THEN [task EXCEPT !.loaderDoneReturn = <<result>>]
  ELSE fileProcessed(task)

onAdded(task, kind, result) ==
  IF kind = "file"
  THEN [task EXCEPT !.loaderDoneReturn = <<result>>]
  ELSE fileProcessed([task EXCEPT
          !.loaderDoneReturn[1].entriesAdded =
             @ + (IF result.entriesAdded > 0 THEN 1 ELSE 0),
          !.loaderDoneReturn[1].uniqueIds = Append(@, result.uniqueId)])

onInvalidResult(task, kind) ==
  IF kind = "file"
  THEN [task EXCEPT !.loaderDoneReturn = <<ERROR_LOADER_RETURN>>]
  ELSE fileProcessed(task)

onCaught(task, kind) ==
  IF kind = "file"
  THEN [task EXCEPT !.loaderDoneReturn = <<ERROR_LOADER_RETURN>>]
  ELSE fileProcessed(task)

SetTask(gi, task, k, item) ==
  [Q EXCEPT ![gi] = [task EXCEPT !.loaderTasks[k] = item]]

BackendAwaits == {"deleteLoader", "addFileLoader", "addLoader"}
StoreWriteAwaits == {"deleteMetadataByEmbedjsUniqueId", "addOrUpdateMetadata",
                     "deleteMetadata"}

\* an await whose failure is swallowed: the pipeline goes on to the add
ThrownAndContinued(item) == [item EXCEPT !.pc = "addFileLoader"]

\* an await that threw in a unit of work without a catch block
ThrownUncaught(item) == [item EXCEPT !.pc = "rejected"]

\* the item after an await that threw: the call was made, the catch block ran
Thrown(item) ==
  [item EXCEPT !.pc = "returned",
               !.value = <<ERROR_LOADER_RETURN>>,
               !.backendCalls = IF item.pc \in BackendAwaits THEN @ + 1 ELSE @,
               !.storeWrites = IF item.pc \in StoreWriteAwaits THEN @ + 1 ELSE @]

\* The unit of work of fileTask and of each per-file item of directoryTask:
\* hash, look the record up, skip / delete the old artifact and record, add,
\* write the record.  The whole body is inside try/catch.
filePipeline(gi, k, kind) ==
  LET task == Q[gi]
      item == task.loaderTasks[k]
      base == task.base
      table == document_metadata[base]
  IN
  /\ Running(gi, k, kind)
  /\ \/ /\ item.pc = "calculateFileHash"
        /\ disk[item.path].present
        /\ knowledgeItemProcessingQueueMappingPromise' =
             SetItem(gi, k, [item EXCEPT
                               !.fileHash = HashOf(disk[item.path].ver),
                               !.pc = "getMetadataByPath"])
        /\ UNCHANGED <<document_metadata, rag, faults>>
     \/ /\ item.pc = "getMetadataByPath"
        /\ LET existingMetadata == getMetadataByPath(table, base, item.path)
               item2 == [item EXCEPT !.existingMetadata = existingMetadata]
           IN knowledgeItemProcessingQueueMappingPromise' =
                IF skipUnchanged(existingMetadata, task.forceReload, item.fileHash)
                THEN SetTask(gi,
                       onSkipped(task, kind, existingMetadata[1].unique_id_embedjs),
                       k, [item2 EXCEPT
                             !.pc = "returned",
                             !.value = <<SkippedUnchanged(
                                existingMetadata[1].unique_id_embedjs)>>])
                ELSE IF updateExisting(existingMetadata, task.forceReload,
                                       item.fileHash)
                THEN SetItem(gi, k, [item2 EXCEPT !.pc = "deleteLoader"])
                ELSE SetItem(gi, k, [item2 EXCEPT !.pc = "addFileLoader"])
        /\ UNCHANGED <<document_metadata, rag, faults>>
     \/ /\ item.pc = "deleteLoader"
        /\ rag' = [rag EXCEPT ![base] =
                     @ \ {item.existingMetadata[1].unique_id_embedjs}]
        /\ knowledgeItemProcessingQueueMappingPromise' =
             SetItem(gi, k, [item EXCEPT
                               !.pc = "deleteMetadataByEmbedjsUniqueId",
                               !.backendCalls = @ + 1])
        /\ UNCHANGED <<document_metadata, faults>>
     \/ /\ item.pc = "deleteMetadataByEmbedjsUniqueId"
        /\ document_metadata' = [document_metadata EXCEPT ![base] =
             deleteMetadataByEmbedjsUniqueId(table, base,
               item.existingMetadata[1].unique_id_embedjs)]
        /\ knowledgeItemProcessingQueueMappingPromise' =
             SetItem(gi, k, [item EXCEPT !.pc = "addFileLoader",
                                         !.storeWrites = @ + 1])
        /\ UNCHANGED <<rag, faults>>
     \/ /\ item.pc = "addFileLoader"
        /\ \E uid \in Uids :
             LET result == LoaderResult(uid, "FileLoader")
             IN /\ validResult(result)
                /\ rag' = [rag EXCEPT ![base] = @ \cup {uid}]
                /\ knowledgeItemProcessingQueueMappingPromise' =
                     SetItem(gi, k, [item EXCEPT
                                       !.result = <<result>>,
                                       !.pc = "addOrUpdateMetadata",
                                       !.backendCalls = @ + 1])
        /\ UNCHANGED <<document_metadata, faults>>
     \/ /\ item.pc = "addFileLoader"
        /\ ~validResult(ERROR_LOADER_RETURN)
        /\ Fault
        /\ knowledgeItemProcessingQueueMappingPromise' =
             SetTask(gi, onInvalidResult(task, kind), k,
                     [item EXCEPT !.pc = "returned",
                                  !.value = <<ERROR_LOADER_RETURN>>,
                                  !.backendCalls = @ + 1])
        /\ UNCHANGED <<document_metadata, rag>>
     \/ /\ item.pc = "addOrUpdateMetadata"
        /\ document_metadata' = [document_metadata EXCEPT ![base] =
             addOrUpdateMetadata(table,
               [knowledge_base_id |-> base,
                file_path |-> item.path,
                content_hash |-> item.fileHash,
                unique_id_embedjs |-> item.result[1].uniqueId,
                loader_type |-> item.result[1].loaderType,
                last_modified_timestamp |-> item.lastModified])]
        /\ knowledgeItemProcessingQueueMappingPromise' =
             SetTask(gi, onAdded(task, kind, item.result[1]), k,
                     [item EXCEPT !.pc = "returned", !.value = item.result,
                                  !.storeWrites = @ + 1])
        /\ UNCHANGED <<rag, faults>>
     \/ /\ item.pc \in {"calculateFileHash", "getMetadataByPath", "deleteLoader",
                        "deleteMetadataByEmbedjsUniqueId", "addFileLoader",
                        "addOrUpdateMetadata"}
        /\ IF item.pc = "calculateFileHash" /\ ~disk[item.path].present
           THEN UNCHANGED faults
           ELSE Fault
        /\ knowledgeItemProcessingQueueMappingPromise' =
             SetTask(gi, onCaught(task, kind), k, Thrown(item))
        /\ UNCHANGED <<document_metadata, rag>>
  /\ UNCHANGED <<workload, processingItemCount, calls, file_metadata, disk,
                 envSteps>>

fileTaskRun(gi, k) == filePipeline(gi, k, "file")

directoryFileTaskRun(gi, k) == filePipeline(gi, k, "dirfile")

DeletionCheck ==
  [entriesAdded |-> 0, uniqueId |-> "DeletionCheck_uuid", uniqueIds |-> <<>>,
   loaderType |-> "DeletionCheck"]

\* a scan that finds nothing to delete
SkipAll(rows, currentFilePaths) == <<>>

\* the records of the deletion scan still to look at: the loop passes over
\* every record whose path is in the listing taken when the task was made
RECURSIVE SkipListed(_, _)
SkipListed(rows, currentFilePaths) ==
  IF rows = <<>> THEN <<>>
  ELSE IF Head(rows).file_path \in currentFilePaths
  THEN SkipListed(Tail(rows), currentFilePaths)
  ELSE rows

\* the last item of directoryTask: delete artifact and record of every stored
\* path below the directory that the listing no longer has
deletionScanRun(gi, k) ==
  LET task == Q[gi]
      item == task.loaderTasks[k]
      base == task.base
      table == document_metadata[base]
      goOn(rows) ==
        LET todo == SkipListed(rows, task.currentFilePaths)
        IN [item EXCEPT !.allMetadataInDir = todo,
                        !.pc = IF todo = <<>> THEN "returned"
                               ELSE "deleteLoader",
                        !.value = IF todo = <<>> THEN <<DeletionCheck>>
                                  ELSE <<>>]
  IN
  /\ Running(gi, k, "delscan")
  /\ \/ /\ item.pc = "getMetadataByDirectoryPath"
        /\ knowledgeItemProcessingQueueMappingPromise' =
             SetItem(gi, k,
               goOn(getMetadataByDirectoryPath(table, base, task.directory)))
        /\ UNCHANGED <<document_metadata, rag, faults>>
     \/ /\ item.pc = "deleteLoader"
        /\ rag' = [rag EXCEPT ![base] =
                     @ \ {Head(item.allMetadataInDir).unique_id_embedjs}]
        /\ knowledgeItemProcessingQueueMappingPromise' =
             SetItem(gi, k, [item EXCEPT !.pc = "deleteMetadata",
                                         !.backendCalls = @ + 1])
        /\ UNCHANGED <<document_metadata, faults>>
     \/ /\ item.pc = "deleteMetadata"
        /\ document_metadata' = [document_metadata EXCEPT ![base] =
             deleteMetadata(table, base, Head(item.allMetadataInDir).file_path)]
        /\ knowledgeItemProcessingQueueMappingPromise' =
             SetItem(gi, k,
               [goOn(Tail(item.allMetadataInDir)) EXCEPT !.storeWrites = @ + 1])
        /\ UNCHANGED <<rag, faults>>
     \/ /\ item.pc \in {"getMetadataByDirectoryPath", "deleteLoader",
                        "deleteMetadata"}
        /\ Fault
        /\ knowledgeItemProcessingQueueMappingPromise' =
             SetItem(gi, k, Thrown(item))
        /\ UNCHANGED <<document_metadata, rag>>
  /\ UNCHANGED <<workload, processingItemCount, calls, file_metadata, disk,
                 envSteps>>

---------------------------------------------------------------------------
(* The file system changes under the service *)

\* files change between runs of the pipeline, while nothing is queued
EnvStep == Q = <<>> /\ envSteps < MaxEnvSteps /\ envSteps' = envSteps + 1

EditFile(p) ==
  /\ EnvStep
  /\ disk[p].present
  /\ disk' = [disk EXCEPT ![p].ver = Other(@), ![p].mtime = 2]
  /\ UNCHANGED <<workload, processingItemCount,
                 knowledgeItemProcessingQueueMappingPromise, calls,
                 document_metadata, file_metadata, rag, faults>>

TouchFile(p) ==
  /\ EnvStep
  /\ disk[p].present
  /\ disk' = [disk EXCEPT ![p].mtime = Other(@)]
  /\ UNCHANGED <<workload, processingItemCount,
                 knowledgeItemProcessingQueueMappingPromise, calls,
                 document_metadata, file_metadata, rag, faults>>

RemoveFile(p) ==
  /\ EnvStep
  /\ disk[p].present
  /\ disk' = [disk EXCEPT ![p].present = FALSE]
  /\ UNCHANGED <<workload, processingItemCount,
                 knowledgeItemProcessingQueueMappingPromise, calls,
                 document_metadata, file_metadata, rag, faults>>

CreateFile(p) ==
  /\ EnvStep
  /\ ~disk[p].present
  /\ disk' = [disk EXCEPT ![p] = [present |-> TRUE, ver |-> 1, mtime |-> 2]]
  /\ UNCHANGED <<workload, processingItemCount,
                 knowledgeItemProcessingQueueMappingPromise, calls,
                 document_metadata, file_metadata, rag, faults>>

---------------------------------------------------------------------------
(* The service with the document_metadata store *)

Init ==
  /\ workload = 0
  /\ processingItemCount = 0
  /\ knowledgeItemProcessingQueueMappingPromise = <<>>
  /\ calls = <<>>
  /\ document_metadata = [b \in Bases |-> <<>>]
  /\ file_metadata = [b \in Bases |-> <<>>]
  /\ rag = [b \in Bases |-> {}]
  /\ \E b \in BOOLEAN :
       disk = [p \in FilePaths |->
                 [present |-> (p = FileA \/ b), ver |-> 1, mtime |-> 1]]
  /\ faults = 0
  /\ envSteps = 0

\* the FileType a caller passes for a path
FileOf(p) ==
  [path |-> p, size |-> DiskSize(p), lastModified |-> disk[p].mtime]

Positions ==
  {<<gi, k>> \in (1..MaxAdds) \X (1..3) :
     gi <= Len(Q) /\ k <= Len(Q[gi].loaderTasks)}

Adds ==
  \/ \E b \in Bases, p \in FilePaths, fr \in BOOLEAN :
       add(b, [type |-> "file", content |-> FileOf(p)], fr, TRUE)
  \/ \E b \in Bases, fr \in BOOLEAN :
       add(b, [type |-> "directory", content |-> DirD], fr, TRUE)
  \/ \E b \in Bases :
       add(b, [type |-> "url", content |-> "url"], FALSE, TRUE)
  \/ \E b \in Bases :
       add(b, [type |-> "sitemap", content |-> "sitemap"], FALSE, TRUE)
  \/ \E b \in Bases, text \in NoteTexts :
       add(b, [type |-> "note", content |-> text], FALSE, TRUE)
  \/ \E b \in Bases :
       add(b, [type |-> "video", content |-> "unknown"], FALSE, TRUE)
  \/ \E b \in Bases :
       add(b, [type |-> "url", content |-> "url"], FALSE, FALSE)

Works ==
  \/ \E pos \in Positions : fileTaskRun(pos[1], pos[2])
  \/ \E pos \in Positions : directoryFileTaskRun(pos[1], pos[2])
  \/ \E pos \in Positions : deletionScanRun(pos[1], pos[2])
  \/ \E pos \in Positions : urlTaskRun(pos[1], pos[2])
  \/ \E pos \in Positions : sitemapTaskRun(pos[1], pos[2])
  \/ \E pos \in Positions : noteTaskRun(pos[1], pos[2])

Completes == \E pos \in Positions : CompleteItem(pos[1], pos[2])

Changes ==
  \/ \E p \in VolatilePaths : EditFile(p)
  \/ \E p \in VolatilePaths : TouchFile(p)
  \/ \E p \in VolatilePaths : RemoveFile(p)
  \/ \E p \in VolatilePaths : CreateFile(p)

Next == Adds \/ Works \/ Completes \/ Changes

Spec == Init /\ [][Next]_vars

\* The service while the file system stands still.  An admitted unit of work
\* was started by the scan that admitted it and runs on the event loop: each
\* of its awaits settles, and the continuation chained to it runs once it has
\* returned.
NextQuiet == Adds \/ Works \/ Completes

FairSpec == Init /\ [][NextQuiet]_vars /\ WF_vars(Works \/ Completes)

\* Syncs of a directory while files change between the runs of the pipeline,
\* under the same scheduling
AddsSync ==
  \E b \in Bases, fr \in BOOLEAN :
    add(b, [type |-> "directory", content |-> DirD], fr, TRUE)

WorksSync ==
  \/ \E pos \in Positions : directoryFileTaskRun(pos[1], pos[2])
  \/ \E pos \in Positions : deletionScanRun(pos[1], pos[2])

NextSync == AddsSync \/ WorksSync \/ Completes \/ Changes

FairSpecSync ==
  Init /\ [][NextSync]_vars /\ WF_vars(WorksSync \/ Completes)

---------------------------------------------------------------------------
(* The file_metadata table of the service revision with incrementalUpdate: *)
(* filePath is the primary key, embedjs_unique_id is UNIQUE.               *)

pathPrefix(directoryPath) ==
  IF directoryPath # <<>> /\ directoryPath[Len(directoryPath)] = "/"
  THEN directoryPath ELSE directoryPath \o <<"/">>

\* the constraints an INSERT has to pass
insertViolates(table, metadata) ==
  \E i \in DOMAIN table :
    \/ table[i].filePath = metadata.filePath
    \/ table[i].embedjs_unique_id = metadata.embedjs_unique_id

insertFileMetadata(table, metadata) == Append(table, metadata)

\* UPDATE ... SET hash, lastModified, size, embedjs_unique_id WHERE filePath = ?
updateViolates(table, filePath, metadata) ==
  /\ \E i \in DOMAIN table : table[i].filePath = filePath
  /\ \E j \in DOMAIN table :
       /\ table[j].filePath # filePath
       /\ table[j].embedjs_unique_id = metadata.embedjs_unique_id

updateFileMetadata(table, filePath, metadata) ==
  [i \in DOMAIN table |->
     IF table[i].filePath = filePath
     THEN [table[i] EXCEPT !.hash = metadata.hash,
                           !.lastModified = metadata.lastModified,
                           !.size = metadata.size,
                           !.embedjs_unique_id = metadata.embedjs_unique_id]
     ELSE table[i]]

deleteFileMetadata(table, filePath) ==
  LET Keep(r) == r.filePath # filePath
  IN SelectSeq(table, Keep)

getDirectoryMetadata(table, directoryPath) ==
  LET Match(r) == Like(pathPrefix(directoryPath) \o <<"%">>, r.filePath)
  IN SelectSeq(table, Match)

deleteDirectoryMetadata(table, directoryPath) ==
  LET Keep(r) == ~Like(pathPrefix(directoryPath) \o <<"%">>, r.filePath)
  IN SelectSeq(table, Keep)

---------------------------------------------------------------------------
(* The task factory of the service revision with incrementalUpdate *)

RECURSIVE SumSizes(_)
SumSizes(files) ==
  IF files = <<>> THEN 0 ELSE Head(files).size + SumSizes(Tail(files))

\* a path as the string the code holds
PathName(p) == IF p = FileA THEN "/d/a" ELSE IF p = FileB THEN "/d/b" ELSE ""

fileTaskB(gid, base, file, forceReload) ==
  NewTask(gid, base, forceReload,
          <<NewItem(1, "fileB", file.size, "addLoader", file)>>, <<>>)

directoryTaskB(gid, base, directoryPath, forceReload, incrementalUpdate) ==
  LET files == getAllFiles(directoryPath)
      n == Len(files)
      scanItem == NewItem(1, "scan", SumSizes(files), "getDirectoryMetadata",
                          NoFile)
      preTask == NewItem(1, "pretask", 1 * MB, "deleteDirectoryMetadata",
                         NoFile)
      fileItems == [i \in 1..n |->
                      NewItem(i + 1, "fullfile", files[i].size, "addFileLoader",
                              files[i])]
  IN [NewTask(gid, base, forceReload,
              IF incrementalUpdate /\ ~forceReload THEN <<scanItem>>
              ELSE <<preTask>> \o fileItems,
              <<aggregateLoaderDoneReturn>>)
        EXCEPT !.directory = directoryPath,
               !.files = files,
               !.totalFiles = n]

TaskOfB(gid, base, item, forceReload, incrementalUpdate) ==
  CASE item.type = "file" -> <<fileTaskB(gid, base, item.content, forceReload)>>
    [] item.type = "directory" ->
         <<directoryTaskB(gid, base, item.content, forceReload,
                          incrementalUpdate)>>
    [] item.type = "url" -> <<urlTask(gid, base, forceReload)>>
    [] item.type = "sitemap" -> <<sitemapTask(gid, base, forceReload)>>
    [] item.type = "note" -> <<noteTask(gid, base, item.content, forceReload)>>
    [] OTHER -> <<>>

addB(base, item, forceReload, incrementalUpdate, buildOk) ==
  submit(item.type,
         TaskOfB(Len(calls) + 1, base, item, forceReload, incrementalUpdate),
         buildOk)

fileTaskBRun(gi, k) == addLoaderTask(gi, k, "fileB", "FileLoader")

\* an async unit of work without try/catch whose await threw: its promise
\* is rejected, and the continuation chained with then() is never called
Rejected(item) == [item EXCEPT !.pc = "rejected"]

RECURSIVE SkipProcessed(_, _)
SkipProcessed(rows, processedFilePaths) ==
  IF rows = <<>> THEN <<>>
  ELSE IF Head(rows).filePath \in processedFilePaths
  THEN SkipProcessed(Tail(rows), processedFilePaths)
  ELSE rows

IncrementalScanPart(task, item) ==
  [entriesAdded |-> item.currentEntriesAdded,
   uniqueId |-> task.loaderDoneReturn[1].uniqueId,
   uniqueIds |-> item.currentUniqueIds,
   loaderType |-> "DirectoryIncrementalScanPart"]

\* the scan after the deletion loop has passed the listed records: the next
\* record to delete, or the end of the unit of work
scanDeletions(task, item, rows) ==
  LET todo == SkipProcessed(rows, {task.files[i].path : i \in 1..Len(task.files)})
  IN IF todo # <<>>
     THEN [task EXCEPT !.loaderTasks[1] =
             [item EXCEPT !.allMetadataInDir = todo,
                          !.pc = "missing.deleteLoader"]]
     ELSE [(IF task.totalFiles > 0
            THEN sendDirectoryProcessingPercent(task, task.totalFiles,
                                                task.totalFiles)
            ELSE task) EXCEPT
             !.loaderDoneReturn[1].entriesAdded = item.currentEntriesAdded,
             !.loaderDoneReturn[1].uniqueIds = item.currentUniqueIds,
             !.loaderTasks[1] =
                [item EXCEPT !.allMetadataInDir = todo,
                             !.pc = "returned",
                             !.value = <<IncrementalScanPart(task, item)>>]]

\* the scan at the head of its loop over the listed files
scanFile(task, item, i) ==
  IF i <= Len(task.files)
  THEN [task EXCEPT !.loaderTasks[1] =
          [item EXCEPT !.fileIndex = i, !.pc = "calculateFileHash"]]
  ELSE scanDeletions(task, [item EXCEPT !.fileIndex = i], item.allMetadataInDir)

\* one listed file is done
scanFileDone(task, item) ==
  scanFile(fileProcessed(task), item, item.fileIndex + 1)

changedFile(existingFileMeta, currentHash, lastModified) ==
  \/ existingFileMeta.hash # currentHash
  \/ existingFileMeta.lastModified # lastModified

\* The single item of an incremental directory update: read the directory's
\* records, go through the listed files (update a changed one, add a new one,
\* pass an unchanged one), then delete what is recorded and no longer listed.
\* The body has no try/catch, and the result of addFileLoader is used as it
\* comes: a result without unique id goes into the record like any other.
incrementalScanRun(gi, k) ==
  LET task == Q[gi]
      item == task.loaderTasks[k]
      base == task.base
      table == file_metadata[base]
      file == task.files[item.fileIndex]
      SetScan(t) == [Q EXCEPT ![gi] = t]
      metadata == [filePath |-> file.path, hash |-> item.fileHash,
                   lastModified |-> item.lastModified, size |-> file.size,
                   embedjs_unique_id |-> item.result[1].uniqueId]
      counted == [item EXCEPT
                    !.currentEntriesAdded = @ + 1,
                    !.currentUniqueIds = Append(@, item.result[1].uniqueId)]
  IN
  /\ Running(gi, k, "scan")
  /\ \/ /\ item.pc = "getDirectoryMetadata"
        /\ knowledgeItemProcessingQueueMappingPromise' =
             SetScan(scanFile(task,
               [item EXCEPT !.allMetadataInDir =
                              getDirectoryMetadata(table, task.directory)], 1))
        /\ UNCHANGED <<file_metadata, rag, faults>>
     \/ /\ item.pc = "calculateFileHash"
        /\ disk[file.path].present
        /\ LET currentHash == HashOf(disk[file.path].ver)
               lastModified == disk[file.path].mtime
               Match(r) == r.filePath = file.path
               existingFileMeta == SelectSeq(item.allMetadataInDir, Match)
               item2 == [item EXCEPT !.fileHash = currentHash,
                                     !.lastModified = lastModified,
                                     !.existingMetadata = existingFileMeta]
           IN knowledgeItemProcessingQueueMappingPromise' =
                IF existingFileMeta = <<>>
                THEN SetItem(gi, k, [item2 EXCEPT !.pc = "new.addFileLoader"])
                ELSE IF changedFile(existingFileMeta[1], currentHash,
                                    lastModified)
                THEN SetItem(gi, k, [item2 EXCEPT !.pc = "changed.deleteLoader"])
                ELSE SetScan(scanFileDone(task,
                       [item2 EXCEPT !.currentUniqueIds =
                          Append(@, PathName(existingFileMeta[1].filePath))]))
        /\ UNCHANGED <<file_metadata, rag, faults>>
     \/ /\ item.pc = "changed.deleteLoader"
        /\ rag' = [rag EXCEPT ![base] =
                     @ \ {item.existingMetadata[1].embedjs_unique_id}]
        /\ knowledgeItemProcessingQueueMappingPromise' =
             SetItem(gi, k, [item EXCEPT !.pc = "changed.addFileLoader"])
        /\ UNCHANGED <<file_metadata, faults>>
     \/ /\ item.pc \in {"changed.addFileLoader", "new.addFileLoader"}
        /\ \E uid \in Uids :
             /\ rag' = [rag EXCEPT ![base] = @ \cup {uid}]
             /\ knowledgeItemProcessingQueueMappingPromise' =
                  SetItem(gi, k, [item EXCEPT
                     !.result = <<LoaderResult(uid, "FileLoader")>>,
                     !.pc = IF item.pc = "new.addFileLoader"
                            THEN "insertFileMetadata"
                            ELSE "updateFileMetadata"])
        /\ UNCHANGED <<file_metadata, faults>>
     \/ /\ item.pc \in {"changed.addFileLoader", "new.addFileLoader"}
        /\ ~validResult(ERROR_LOADER_RETURN)
        /\ Fault
        /\ knowledgeItemProcessingQueueMappingPromise' =
             SetItem(gi, k, [item EXCEPT
                !.result = <<ERROR_LOADER_RETURN>>,
                !.pc = IF item.pc = "new.addFileLoader"
                       THEN "insertFileMetadata"
                       ELSE "updateFileMetadata"])
        /\ UNCHANGED <<file_metadata, rag>>
     \/ /\ item.pc = "updateFileMetadata"
        /\ ~updateViolates(table, file.path, metadata)
        /\ file_metadata' = [file_metadata EXCEPT ![base] =
             updateFileMetadata(table, file.path, metadata)]
        /\ knowledgeItemProcessingQueueMappingPromise' =
             SetScan(scanFileDone(task, counted))
        /\ UNCHANGED <<rag, faults>>
     \/ /\ item.pc = "insertFileMetadata"
        /\ ~insertViolates(table, metadata)
        /\ file_metadata' = [file_metadata EXCEPT ![base] =
             insertFileMetadata(table, metadata)]
        /\ knowledgeItemProcessingQueueMappingPromise' =
             SetScan(scanFileDone(task, counted))
        /\ UNCHANGED <<rag, faults>>
     \/ /\ item.pc = "missing.deleteLoader"
        /\ rag' = [rag EXCEPT ![base] =
                     @ \ {Head(item.allMetadataInDir).embedjs_unique_id}]
        /\ knowledgeItemProcessingQueueMappingPromise' =
             SetItem(gi, k, [item EXCEPT !.pc = "deleteFileMetadata"])
        /\ UNCHANGED <<file_metadata, faults>>
     \/ /\ item.pc = "deleteFileMetadata"
        /\ file_metadata' = [file_metadata EXCEPT ![base] =
             deleteFileMetadata(table, Head(item.allMetadataInDir).filePath)]
        /\ knowledgeItemProcessingQueueMappingPromise' =
             SetScan(scanDeletions(task, item, Tail(item.allMetadataInDir)))
        /\ UNCHANGED <<rag, faults>>
     \/ /\ item.pc \in {"getDirectoryMetadata", "calculateFileHash",
                        "changed.deleteLoader", "changed.addFileLoader",
                        "new.addFileLoader", "updateFileMetadata",
                        "insertFileMetadata", "missing.deleteLoader",
                        "deleteFileMetadata"}
        /\ IF \/ item.pc = "calculateFileHash" /\ ~disk[file.path].present
              \/ item.pc = "updateFileMetadata"
                   /\ updateViolates(table, file.path, metadata)
              \/ item.pc = "insertFileMetadata"
                   /\ insertViolates(table, metadata)
           THEN UNCHANGED faults
           ELSE Fault
        /\ knowledgeItemProcessingQueueMappingPromise' =
             SetItem(gi, k, Rejected(item))
        /\ UNCHANGED <<file_metadata, rag>>
  /\ UNCHANGED <<workload, processingItemCount, calls, document_metadata, disk,
                 envSteps>>

PreTask ==
  [entriesAdded |-> 0, uniqueId |-> "deleteMetaTask", uniqueIds |-> <<>>,
   loaderType |-> "PreTask"]

\* The first item of a full refresh: clear the directory's records.  The body
\* has no try/catch.
preTaskRun(gi, k) ==
  LET task == Q[gi]
      item == task.loaderTasks[k]
      base == task.base
  IN
  /\ Running(gi, k, "pretask")
  /\ item.pc = "deleteDirectoryMetadata"
  /\ \/ /\ file_metadata' = [file_metadata EXCEPT ![base] =
             deleteDirectoryMetadata(file_metadata[base], task.directory)]
        /\ knowledgeItemProcessingQueueMappingPromise' =
             SetItem(gi, k, [item EXCEPT !.pc = "returned",
                                         !.value = <<PreTask>>])
        /\ UNCHANGED faults
     \/ /\ Fault
        /\ knowledgeItemProcessingQueueMappingPromise' =
             SetItem(gi, k, Rejected(item))
        /\ UNCHANGED file_metadata
  /\ UNCHANGED <<workload, processingItemCount, calls, document_metadata, rag,
                 disk, envSteps>>

\* A per-file item of a full refresh: addFileLoader(...).then(hash, stat,
\* insert the record, add to the aggregate).catch(return ERROR_LOADER_RETURN)
fullRefreshFileRun(gi, k) ==
  LET task == Q[gi]
      item == task.loaderTasks[k]
      base == task.base
      table == file_metadata[base]
      metadata == [filePath |-> item.path, hash |-> item.fileHash,
                   lastModified |-> item.lastModified, size |-> item.size,
                   embedjs_unique_id |-> item.result[1].uniqueId]
  IN
  /\ Running(gi, k, "fullfile")
  /\ \/ /\ item.pc = "addFileLoader"
        /\ \E uid \in Uids :
             /\ rag' = [rag EXCEPT ![base] = @ \cup {uid}]
             /\ knowledgeItemProcessingQueueMappingPromise' =
                  SetItem(gi, k, [item EXCEPT
                     !.result = <<LoaderResult(uid, "FileLoader")>>,
                     !.pc = "calculateFileHash"])
        /\ UNCHANGED <<file_metadata, faults>>
     \/ /\ item.pc = "addFileLoader"
        /\ ~validResult(ERROR_LOADER_RETURN)
        /\ Fault
        /\ knowledgeItemProcessingQueueMappingPromise' =
             SetItem(gi, k, [item EXCEPT
                !.result = <<ERROR_LOADER_RETURN>>,
                !.pc = "calculateFileHash"])
        /\ UNCHANGED <<file_metadata, rag>>
     \/ /\ item.pc = "calculateFileHash"
        /\ disk[item.path].present
        /\ knowledgeItemProcessingQueueMappingPromise' =
             SetItem(gi, k, [item EXCEPT
                !.fileHash = HashOf(disk[item.path].ver),
                !.lastModified = disk[item.path].mtime,
                !.pc = "insertFileMetadata"])
        /\ UNCHANGED <<file_metadata, rag, faults>>
     \/ /\ item.pc = "insertFileMetadata"
        /\ ~insertViolates(table, metadata)
        /\ file_metadata' = [file_metadata EXCEPT ![base] =
             insertFileMetadata(table, metadata)]
        /\ knowledgeItemProcessingQueueMappingPromise' =
             SetTask(gi,
               fileProcessed([task EXCEPT
                  !.loaderDoneReturn[1].entriesAdded = @ + 1,
                  !.loaderDoneReturn[1].uniqueIds =
                     Append(@, item.result[1].uniqueId)]),
               k, [item EXCEPT !.pc = "returned", !.value = item.result])
        /\ UNCHANGED <<rag, faults>>
     \/ /\ item.pc \in {"addFileLoader", "calculateFileHash",
                        "insertFileMetadata"}
        /\ IF \/ item.pc = "calculateFileHash" /\ ~disk[item.path].present
              \/ item.pc = "insertFileMetadata"
                   /\ insertViolates(table, metadata)
           THEN UNCHANGED faults
           ELSE Fault
        /\ knowledgeItemProcessingQueueMappingPromise' =
             SetItem(gi, k, [item EXCEPT !.pc = "returned",
                                         !.value = <<ERROR_LOADER_RETURN>>])
        /\ UNCHANGED <<file_metadata, rag>>
  /\ UNCHANGED <<workload, processingItemCount, calls, document_metadata, disk,
                 envSteps>>

AddsB ==
  \/ \E b \in Bases, fr \in BOOLEAN, iu \in BOOLEAN :
       addB(b, [type |-> "directory", content |-> DirD], fr, iu, TRUE)
  \/ \E b \in Bases, p \in FilePaths :
       addB(b, [type |-> "file", content |-> FileOf(p)], FALSE, FALSE, TRUE)

WorksB ==
  \/ \E pos \in Positions : incrementalScanRun(pos[1], pos[2])
  \/ \E pos \in Positions : preTaskRun(pos[1], pos[2])
  \/ \E pos \in Positions : fullRefreshFileRun(pos[1], pos[2])
  \/ \E pos \in Positions : fileTaskBRun(pos[1], pos[2])

NextB == AddsB \/ WorksB \/ Completes \/ Changes

SpecB == Init /\ [][NextB]_vars

NextQuietB == AddsB \/ WorksB \/ Completes

FairSpecB == Init /\ [][NextQuietB]_vars /\ WF_vars(WorksB \/ Completes)

---------------------------------------------------------------------------
(* The metadata stores called directly.  Every call appends its promise   *)
(* to calls, with the arguments it was given.                             *)

MaxStoreCalls == 3

\* paths on a file system whose names may hold '_' and '%' and whose
\* letter case matters
PathABX == <<"/", "a", "/", "b", "/", "x">>
PathABCX == <<"/", "a", "/", "b", "c", "/", "x">>
PathACX == <<"/", "a", "/", "c", "/", "x">>
PathUpperX == <<"/", "A", "/", "b", "/", "x">>
PathUnderscoreX == <<"/", "a", "/", "_", "/", "x">>
StorePaths == {PathABX, PathABCX, PathACX, PathUpperX, PathUnderscoreX}

DirAB == <<"/", "a", "/", "b">>
DirABSep == <<"/", "a", "/", "b", "/">>
DirUnderscore == <<"/", "a", "/", "_">>
DirPercent == <<"/", "a", "/", "%">>
DirUpper == <<"/", "A", "/", "b">>
StoreDirs == {DirAB, DirABSep, DirUnderscore, DirPercent, DirUpper}

StoreCall(type, input, value) ==
  calls' = Append(calls, [type |-> type, settled |-> TRUE,
                          value |-> value, input |-> input])

StoreQuiet == UNCHANGED <<workload, processingItemCount,
                          knowledgeItemProcessingQueueMappingPromise,
                          rag, disk, faults, envSteps>>

callAddOrUpdateMetadata(kb, file_path, ver, uid) ==
  LET metadata ==
        [knowledge_base_id |-> kb, file_path |-> file_path,
         content_hash |-> HashOf(ver), unique_id_embedjs |-> uid,
         loader_type |-> IF ver = 1 THEN "TextLoader" ELSE "PdfLoader",
         last_modified_timestamp |-> ver]
  IN /\ Len(calls) < MaxStoreCalls
     /\ document_metadata' = [document_metadata EXCEPT ![kb] =
          addOrUpdateMetadata(document_metadata[kb], metadata)]
     /\ StoreCall("addOrUpdateMetadata", metadata, <<>>)
     /\ UNCHANGED file_metadata
     /\ StoreQuiet

callGetMetadataByPath(kb, file_path) ==
  /\ Len(calls) < MaxStoreCalls
  /\ StoreCall("getMetadataByPath",
               [knowledge_base_id |-> kb, file_path |-> file_path],
               getMetadataByPath(document_metadata[kb], kb, file_path))
  /\ UNCHANGED <<document_metadata, file_metadata>>
  /\ StoreQuiet

callDeleteMetadata(kb, file_path) ==
  /\ Len(calls) < MaxStoreCalls
  /\ document_metadata' = [document_metadata EXCEPT ![kb] =
       deleteMetadata(document_metadata[kb], kb, file_path)]
  /\ StoreCall("deleteMetadata",
               [knowledge_base_id |-> kb, file_path |-> file_path], <<>>)
  /\ UNCHANGED file_metadata
  /\ StoreQuiet

callDeleteMetadataByEmbedjsUniqueId(kb, uid) ==
  /\ Len(calls) < MaxStoreCalls
  /\ document_metadata' = [document_metadata EXCEPT ![kb] =
       deleteMetadataByEmbedjsUniqueId(document_metadata[kb], kb, uid)]
  /\ StoreCall("deleteMetadataByEmbedjsUniqueId",
               [knowledge_base_id |-> kb, embedjs_unique_id |-> uid], <<>>)
  /\ UNCHANGED file_metadata
  /\ StoreQuiet

callGetMetadataByDirectoryPath(kb, directory_path) ==
  /\ Len(calls) < MaxStoreCalls
  /\ StoreCall("getMetadataByDirectoryPath",
               [knowledge_base_id |-> kb, directory_path |-> directory_path],
               getMetadataByDirectoryPath(document_metadata[kb], kb,
                                          directory_path))
  /\ UNCHANGED <<document_metadata, file_metadata>>
  /\ StoreQuiet

\* the file_metadata store: an INSERT that breaks a constraint rejects
callInsertFileMetadata(kb, filePath, uid) ==
  LET metadata == [filePath |-> filePath, hash |-> HashOf(1),
                   lastModified |-> 1, size |-> MB,
                   embedjs_unique_id |-> uid]
  IN /\ Len(calls) < MaxStoreCalls
     /\ IF insertViolates(file_metadata[kb], metadata)
        THEN /\ StoreCall("insertFileMetadata", metadata, <<"rejected">>)
             /\ UNCHANGED file_metadata
        ELSE /\ file_metadata' = [file_metadata EXCEPT ![kb] =
                  insertFileMetadata(file_metadata[kb], metadata)]
             /\ StoreCall("insertFileMetadata", metadata, <<>>)
     /\ UNCHANGED document_metadata
     /\ StoreQuiet

callGetDirectoryMetadata(kb, directoryPath) ==
  /\ Len(calls) < MaxStoreCalls
  /\ StoreCall("getDirectoryMetadata",
               [knowledge_base_id |-> kb, directoryPath |-> directoryPath],
               getDirectoryMetadata(file_metadata[kb], directoryPath))
  /\ UNCHANGED <<document_metadata, file_metadata>>
  /\ StoreQuiet

callDeleteDirectoryMetadata(kb, directoryPath) ==
  /\ Len(calls) < MaxStoreCalls
  /\ file_metadata' = [file_metadata EXCEPT ![kb] =
       deleteDirectoryMetadata(file_metadata[kb], directoryPath)]
  /\ StoreCall("deleteDirectoryMetadata",
               [knowledge_base_id |-> kb, directoryPath |-> directoryPath],
               <<>>)
  /\ UNCHANGED document_metadata
  /\ StoreQuiet

StoreNext ==
  \/ \E b \in Bases, p \in StorePaths, ver \in 1..2, u \in Uids :
       callAddOrUpdateMetadata(b, p, ver, u)
  \/ \E b \in Bases, p \in StorePaths : callGetMetadataByPath(b, p)
  \/ \E b \in Bases, p \in StorePaths : callDeleteMetadata(b, p)
  \/ \E b \in Bases, u \in Uids : callDeleteMetadataByEmbedjsUniqueId(b, u)
  \/ \E b \in Bases, d \in StoreDirs : callGetMetadataByDirectoryPath(b, d)
  \/ \E b \in Bases, p \in StorePaths, u \in Uids :
       callInsertFileMetadata(b, p, u)
  \/ \E b \in Bases, d \in StoreDirs : callGetDirectoryMetadata(b, d)
  \/ \E b \in Bases, d \in StoreDirs : callDeleteDirectoryMetadata(b, d)

StoreSpec == Init /\ [][StoreNext]_vars

---------------------------------------------------------------------------
(* remove() and reset().  Each call appends its promise to calls; the      *)
(* promise carries the position of the call between its awaits.           *)

RemoveInputs == {<<"u1">>, <<"u1", "u2">>}

Rejection == <<"rejected">>

RemoveCall(base, uniqueIds, pc, settled, value) ==
  [type |-> "remove", settled |-> settled, value |-> value, base |-> base,
   uniqueIds |-> uniqueIds, next |-> 1, pc |-> pc,
   deleteLoaderCalls |-> <<>>, storeDeletes |-> <<>>]

OpsQuiet == UNCHANGED <<workload, processingItemCount,
                        knowledgeItemProcessingQueueMappingPromise,
                        disk, envSteps>>

\* remove() up to its first await inside the loop: getRagApplication
\* rejects, or the loop starts, or there is nothing to loop over
remove(base, uniqueIds, buildOk) ==
  /\ Len(calls) < MaxAdds
  /\ IF ~buildOk
     THEN /\ Fault
          /\ calls' = Append(calls, RemoveCall(base, uniqueIds, "rejected",
                                               TRUE, Rejection))
     ELSE /\ calls' = Append(calls,
               IF uniqueIds = <<>>
               THEN RemoveCall(base, uniqueIds, "returned", TRUE, <<>>)
               ELSE RemoveCall(base, uniqueIds, "deleteLoader", FALSE, <<>>))
          /\ UNCHANGED faults
  /\ UNCHANGED <<document_metadata, file_metadata, rag>>
  /\ OpsQuiet

RejectCall(c) ==
  /\ Fault
  /\ calls' = [calls EXCEPT ![c].settled = TRUE, ![c].value = Rejection,
                            ![c].pc = "rejected"]

\* one await of the loop of remove(), document_metadata revision
removeRun(c) ==
  LET call == calls[c]
      id == call.uniqueIds[call.next]
  IN /\ c <= Len(calls)
     /\ call.type = "remove"
     /\ ~call.settled
     /\ \/ /\ call.pc = "deleteLoader"
           /\ \/ /\ rag' = [rag EXCEPT ![call.base] = @ \ {id}]
                 /\ calls' = [calls EXCEPT
                      ![c].pc = "deleteMetadataByEmbedjsUniqueId",
                      ![c].deleteLoaderCalls = Append(@, id)]
                 /\ UNCHANGED faults
              \/ RejectCall(c) /\ UNCHANGED rag
           /\ UNCHANGED document_metadata
        \/ /\ call.pc = "deleteMetadataByEmbedjsUniqueId"
           /\ \/ /\ document_metadata' = [document_metadata EXCEPT
                      ![call.base] =
                        deleteMetadataByEmbedjsUniqueId(@, call.base, id)]
                 /\ calls' = [calls EXCEPT
                      ![c].storeDeletes = Append(@, id),
                      ![c].next = @ + 1,
                      ![c].settled = (call.next = Len(call.uniqueIds)),
                      ![c].pc = IF call.next = Len(call.uniqueIds)
                                THEN "returned" ELSE "deleteLoader"]
                 /\ UNCHANGED faults
              \/ RejectCall(c) /\ UNCHANGED document_metadata
           /\ UNCHANGED rag
     /\ UNCHANGED file_metadata
     /\ OpsQuiet

\* one await of the loop of remove(), file_metadata revision
removeBRun(c) ==
  LET call == calls[c]
      id == call.uniqueIds[call.next]
  IN /\ c <= Len(calls)
     /\ call.type = "remove"
     /\ ~call.settled
     /\ call.pc = "deleteLoader"
     /\ \/ /\ rag' = [rag EXCEPT ![call.base] = @ \ {id}]
           /\ calls' = [calls EXCEPT
                ![c].deleteLoaderCalls = Append(@, id),
                ![c].next = @ + 1,
                ![c].settled = (call.next = Len(call.uniqueIds)),
                ![c].pc = IF call.next = Len(call.uniqueIds)
                          THEN "returned" ELSE "deleteLoader"]
           /\ UNCHANGED faults
        \/ RejectCall(c) /\ UNCHANGED rag
     /\ UNCHANGED <<document_metadata, file_metadata>>
     /\ OpsQuiet

\* reset() up to the await of ragApplication.reset()
reset(base, buildOk) ==
  /\ Len(calls) < MaxAdds
  /\ IF ~buildOk
     THEN /\ Fault
          /\ calls' = Append(calls, [type |-> "reset", settled |-> TRUE,
                                     value |-> Rejection, base |-> base,
                                     pc |-> "rejected"])
     ELSE /\ calls' = Append(calls, [type |-> "reset", settled |-> FALSE,
                                     value |-> <<>>, base |-> base,
                                     pc |-> "reset"])
          /\ UNCHANGED faults
  /\ UNCHANGED <<document_metadata, file_metadata, rag>>
  /\ OpsQuiet

\* a reset that leaves the backend as it is
resetNothing(loaders, base) == loaders

\* ragApplication.reset(): the backend of the base forgets every loader
resetBackend(loaders, base) == [loaders EXCEPT ![base] = {}]

resetRun(c) ==
  LET call == calls[c]
  IN /\ c <= Len(calls)
     /\ call.type = "reset"
     /\ ~call.settled
     /\ \/ /\ rag' = resetBackend(rag, call.base)
           /\ calls' = [calls EXCEPT ![c].settled = TRUE,
                                     ![c].pc = "returned"]
           /\ UNCHANGED faults
        \/ RejectCall(c) /\ UNCHANGED rag
     /\ UNCHANGED <<document_metadata, file_metadata>>
     /\ OpsQuiet

Removes ==
  \E b \in Bases, ids \in RemoveInputs, ok \in BOOLEAN : remove(b, ids, ok)

Resets == \E b \in Bases, ok \in BOOLEAN : reset(b, ok)

NextOps ==
  \/ Adds \/ Works \/ Completes
  \/ Removes
  \/ Resets
  \/ \E c \in 1..MaxAdds : removeRun(c)
  \/ \E c \in 1..MaxAdds : resetRun(c)

SpecOps == Init /\ [][NextOps]_vars

NextOpsB ==
  \/ AddsB \/ WorksB \/ Completes
  \/ Removes
  \/ Resets
  \/ \E c \in 1..MaxAdds : removeBRun(c)
  \/ \E c \in 1..MaxAdds : resetRun(c)

SpecOpsB == Init /\ [][NextOpsB]_vars

---------------------------------------------------------------------------
(* Properties of the scheduler *)

RECURSIVE AllItems(_)
AllItems(queue) ==
  IF queue = <<>> THEN <<>>
  ELSE Head(queue).loaderTasks \o AllItems(Tail(queue))

RECURSIVE SumWorkload(_)
SumWorkload(items) ==
  IF items = <<>> THEN 0
  ELSE (IF Head(items).state = PROCESSING THEN Head(items).workload ELSE 0)
       + SumWorkload(Tail(items))

IsProcessing(item) == item.state = PROCESSING
IsPending(item) == item.state = PENDING
ProcessingItems == SelectSeq(AllItems(Q), IsProcessing)
PendingItems == SelectSeq(AllItems(Q), IsPending)

KnownTypes == {"file", "directory", "url", "sitemap", "note"}

\* C1: the number of items in PROCESSING state, and the counter that tracks
\* it, never exceed MAXIMUM_PROCESSING_ITEM_COUNT.
C1_CountWithinCap ==
  /\ processingItemCount <= MAXIMUM_PROCESSING_ITEM_COUNT
  /\ Len(ProcessingItems) <= MAXIMUM_PROCESSING_ITEM_COUNT

\* the cap is reached and an item waits behind it
C1_CapReachedItemDeferred ==
  /\ processingItemCount = MAXIMUM_PROCESSING_ITEM_COUNT
  /\ workload < MAXIMUM_WORKLOAD
  /\ PendingItems # <<>>

\* C2: while no registered item has an estimate above MAXIMUM_WORKLOAD, the
\* workload in flight never exceeds MAXIMUM_WORKLOAD.
C2_WorkloadWithinCap ==
  (\A i \in 1..Len(AllItems(Q)) : AllItems(Q)[i].workload <= MAXIMUM_WORKLOAD)
     => workload <= MAXIMUM_WORKLOAD

\* C3: workload is the sum of the estimates of the PROCESSING items,
\* processingItemCount is their number, neither is negative, and both are
\* zero while no group is registered.
C3_CountersMatchProcessingItems ==
  /\ workload = SumWorkload(AllItems(Q))
  /\ processingItemCount = Len(ProcessingItems)
  /\ workload >= 0
  /\ processingItemCount >= 0
  /\ (Q = <<>> => workload = 0 /\ processingItemCount = 0)

\* a group has completed, and of what is registered now one item runs and
\* another waits
C3_AfterCompletionRunningAndWaiting ==
  /\ \E g \in 1..Len(calls) : calls[g].settled /\ calls[g].type \in KnownTypes
                              /\ calls[g].value # <<ERROR_LOADER_RETURN>>
  /\ ProcessingItems # <<>>
  /\ PendingItems # <<>>
  /\ workload > 0

Registered(g) == \E gi \in 1..Len(Q) : Q[gi].gid = g
GroupOf(g) == Q[CHOOSE gi \in 1..Len(Q) : Q[gi].gid = g]

\* C4: the result of a group is delivered exactly once, in the step that
\* completes its last remaining item; it is never delivered while an item of
\* the group is PENDING or PROCESSING; the group is removed in that step; and
\* a completion delivers the result of no other group.
C4_DeliveredOnceAtLastItem ==
  /\ [](\A gi \in 1..Len(Q) :
          /\ ~calls[Q[gi].gid].settled
          /\ Q[gi].loaderTasks # <<>>
          /\ \A gj \in 1..Len(Q) : Q[gj].gid = Q[gi].gid => gj = gi)
  /\ [][\A g \in 1..Len(calls) :
          /\ calls[g].settled => calls'[g] = calls[g]
          /\ (~calls[g].settled /\ calls'[g].settled) =>
               /\ Registered(g)
               /\ Len(GroupOf(g).loaderTasks) = 1
               /\ GroupOf(g).loaderTasks[1].state = PROCESSING
               /\ GroupOf(g).loaderTasks[1].pc = "returned"
               /\ calls'[g].value = GroupOf(g).loaderDoneReturn
               /\ \A gi \in 1..Len(Q') : Q'[gi].gid # g
               /\ \A h \in 1..Len(calls) :
                    h # g /\ calls'[h].settled => calls[h].settled
          /\ (~calls[g].settled /\ ~calls'[g].settled) =>
               \E gi \in 1..Len(Q') : Q'[gi].gid = g]_vars

\* a directory's aggregate has been delivered while another group is still
\* registered
C4_DirectoryDeliveredOtherRegistered ==
  /\ \E g \in 1..Len(calls) :
       /\ calls[g].settled
       /\ calls[g].type = "directory"
       /\ calls[g].value # <<ERROR_LOADER_RETURN>>
  /\ Q # <<>>

\* C6: a unit of work that fails hands the scheduler the error sentinel
\* instead of throwing, so that the completion step of its item can run: no
\* admitted item is ever left with a rejected unit of work.
C6_FailureBecomesSentinel ==
  \A gi \in 1..Len(Q) : \A k \in 1..Len(Q[gi].loaderTasks) :
    Q[gi].loaderTasks[k].state = PROCESSING =>
      Q[gi].loaderTasks[k].pc # "rejected"

\* C7: when the one item of a file, url, sitemap or note add fails, add()
\* resolves with ERROR_LOADER_RETURN, never with null.
C7_FailedItemResolvesSentinel ==
  [][\A g \in 1..Len(calls) :
       (/\ ~calls[g].settled
        /\ calls'[g].settled
        /\ calls[g].type \in {"file", "url", "sitemap", "note"}
        /\ GroupOf(g).loaderTasks[1].value = <<ERROR_LOADER_RETURN>>)
         => calls'[g].value = <<ERROR_LOADER_RETURN>>]_vars

\* C8: add() always answers with a promise that resolves; for an item of
\* unknown type it resolves at once with ERROR_LOADER_RETURN, registers no
\* group and leaves counters and queue as they were; when the backend
\* application cannot be built it resolves with ERROR_LOADER_RETURN as well.
C8_AddAlwaysResolves ==
  /\ [](\A g \in 1..Len(calls) :
          /\ calls[g].settled \in BOOLEAN
          /\ calls[g].type \notin KnownTypes =>
               /\ calls[g] = Resolved(calls[g].type, <<ERROR_LOADER_RETURN>>)
               /\ ~Registered(g))
  /\ [][Len(calls') = Len(calls) + 1 =>
          LET c == calls'[Len(calls')]
              refused == /\ c = Resolved(c.type, <<ERROR_LOADER_RETURN>>)
                         /\ Q' = Q
                         /\ workload' = workload
                         /\ processingItemCount' = processingItemCount
              queued == /\ c = Unsettled(c.type)
                        /\ Len(Q') = Len(Q) + 1
                        /\ Q'[Len(Q')].gid = Len(calls')
          IN /\ SubSeq(calls', 1, Len(calls)) = calls
             /\ refused \/ queued
             /\ c.type \notin KnownTypes => refused
             /\ faults' # faults => refused]_vars

\* one add() of an unknown type and one add() whose backend application
\* could not be built have both resolved with the sentinel
C8_UnknownTypeAndBuildFailureRefused ==
  \E g \in 1..Len(calls), h \in 1..Len(calls) :
    /\ calls[g].type = "video"
    /\ calls[g].value = <<ERROR_LOADER_RETURN>>
    /\ calls[h].type = "url"
    /\ calls[h].value = <<ERROR_LOADER_RETURN>>
    /\ faults = 1

FileKinds == {"file", "dirfile"}

\* the item found a record with the hash it computed, and no force flag
FoundUnchanged(task, item) ==
  /\ item.kind \in FileKinds
  /\ item.pc \notin {"calculateFileHash", "getMetadataByPath"}
  /\ ~task.forceReload
  /\ item.existingMetadata # <<>>
  /\ item.existingMetadata[1].content_hash = item.fileHash

\* C9: an item that meets a stored record with the same content hash, without
\* forceReload, makes no backend call and no metadata write, and returns a
\* result with entriesAdded = 0 that carries the stored unique id; a file add
\* resolves with that result, a directory add lists the stored id.
C9_UnchangedFileSkipped ==
  \A gi \in 1..Len(Q) : \A k \in 1..Len(Q[gi].loaderTasks) :
    LET task == Q[gi]
        item == task.loaderTasks[k]
        stored == item.existingMetadata[1].unique_id_embedjs
    IN FoundUnchanged(task, item) =>
         /\ item.pc = "returned"
         /\ item.backendCalls = 0
         /\ item.storeWrites = 0
         /\ item.value # <<>>
         /\ item.value[1].entriesAdded = 0
         /\ item.value[1].uniqueId = stored
         /\ item.kind = "file" => task.loaderDoneReturn = item.value
         /\ item.kind = "dirfile" =>
              \E n \in 1..Len(task.loaderDoneReturn[1].uniqueIds) :
                task.loaderDoneReturn[1].uniqueIds[n] = stored

\* a file was added by a first add(); a later directory add meets its record
\* and skips it
C9_SecondAddSkipped ==
  /\ Len(calls) = 2
  /\ calls[1].settled
  /\ calls[1].type = "file"
  /\ \E gi \in 1..Len(Q) : \E k \in 1..Len(Q[gi].loaderTasks) :
       /\ Q[gi].loaderTasks[k].kind = "dirfile"
       /\ FoundUnchanged(Q[gi], Q[gi].loaderTasks[k])

\* C10: the table never holds two records with the same knowledge_base_id
\* and file_path.
C10_OneRecordPerPath ==
  \A b \in Bases :
    \A i \in 1..Len(document_metadata[b]), j \in 1..Len(document_metadata[b]) :
      (/\ document_metadata[b][i].knowledge_base_id =
            document_metadata[b][j].knowledge_base_id
       /\ document_metadata[b][i].file_path = document_metadata[b][j].file_path)
        => i = j

\* two items of the same path both found no record and both wrote one
C10_TwoWritersOnePath ==
  \E gi \in 1..Len(Q), gj \in 1..Len(Q) :
    /\ gi # gj
    /\ LET x == Q[gi].loaderTasks[1]
           y == Q[gj].loaderTasks[1]
       IN /\ x.kind \in FileKinds /\ y.kind \in FileKinds
          /\ x.path = y.path
          /\ x.pc = "returned" /\ y.pc = "returned"
          /\ x.existingMetadata = <<>> /\ y.existingMetadata = <<>>
          /\ x.storeWrites = 1 /\ y.storeWrites = 1
          /\ Len(document_metadata[Q[gi].base]) = 1

\* C5: when every admitted unit of work settles, every item is eventually
\* admitted, every group empties and every add() resolves.
C5_EveryAddResolves ==
  <>[](/\ Q = <<>>
       /\ \A g \in 1..Len(calls) : calls[g].settled)

---------------------------------------------------------------------------
(* Properties of the file pipeline *)

\* the item found a record whose hash differs from the hash it computed
FoundChanged(item) ==
  /\ item.kind \in FileKinds
  /\ item.pc \notin {"calculateFileHash", "getMetadataByPath"}
  /\ item.existingMetadata # <<>>
  /\ item.existingMetadata[1].content_hash # item.fileHash

\* position (gi, k) holds the same item before and after the step
SameItem(gi, k) ==
  /\ gi <= Len(Q')
  /\ Q'[gi].gid = Q[gi].gid
  /\ Len(Q'[gi].loaderTasks) = Len(Q[gi].loaderTasks)
  /\ Q'[gi].loaderTasks[k].idx = Q[gi].loaderTasks[k].idx

HasRecord(table, file_path, content_hash, uid) ==
  \E i \in 1..Len(table) :
    /\ table[i].file_path = file_path
    /\ table[i].content_hash = content_hash
    /\ table[i].unique_id_embedjs = uid

\* C11: for a file whose record has another hash, the item first deletes the
\* old unique id from the backend, then deletes the old record, then runs the
\* backend add, and only then writes the record with the new hash and the new
\* unique id; no step is taken before the one that precedes it.
C11_UpdateStepsOrdered ==
  [][\A gi \in 1..Len(Q) : \A k \in 1..Len(Q[gi].loaderTasks) :
       SameItem(gi, k) =>
         LET x == Q[gi].loaderTasks[k]
             y == Q'[gi].loaderTasks[k]
             base == Q[gi].base
             old == y.existingMetadata[1].unique_id_embedjs
         IN (FoundChanged(y) /\ y.pc # x.pc) =>
              /\ y.pc = "deleteLoader" => x.pc = "getMetadataByPath"
              /\ y.pc = "deleteMetadataByEmbedjsUniqueId" =>
                   /\ x.pc = "deleteLoader"
                   /\ old \notin rag'[base]
                   /\ document_metadata' = document_metadata
              /\ y.pc = "addFileLoader" =>
                   /\ x.pc = "deleteMetadataByEmbedjsUniqueId"
                   /\ rag' = rag
                   /\ \A i \in 1..Len(document_metadata'[base]) :
                        document_metadata'[base][i].unique_id_embedjs # old
              /\ y.pc = "addOrUpdateMetadata" =>
                   /\ x.pc = "addFileLoader"
                   /\ y.result[1].uniqueId \in rag'[base]
                   /\ document_metadata' = document_metadata
              /\ document_metadata'[base] # document_metadata[base] =>
                   \/ x.pc = "deleteMetadataByEmbedjsUniqueId"
                   \/ /\ x.pc = "addOrUpdateMetadata"
                      /\ y.pc = "returned"
                      /\ y.backendCalls = 2
                      /\ y.storeWrites = 2
                      /\ HasRecord(document_metadata'[base], y.path,
                                   y.fileHash, y.result[1].uniqueId)]_vars

\* a file was edited after its first add(); the second add() has deleted the
\* old artifact and record, added the file again and written the new record
C11_ChangedFileReindexed ==
  \E gi \in 1..Len(Q) : \E k \in 1..Len(Q[gi].loaderTasks) :
    LET item == Q[gi].loaderTasks[k]
    IN /\ FoundChanged(item)
       /\ item.pc = "returned"
       /\ item.value = item.result
       /\ item.result # <<>>
       /\ item.backendCalls = 2
       /\ item.storeWrites = 2
       /\ HasRecord(document_metadata[Q[gi].base], item.path, item.fileHash,
                    item.result[1].uniqueId)

\* C12: when the backend delete of the old artifact of a changed file fails,
\* the item returns the error sentinel at once: the backend add is not run,
\* no record is written or deleted, and a file add() is handed the sentinel.
C12_FailedDeleteStopsUpdate ==
  [][\A gi \in 1..Len(Q) : \A k \in 1..Len(Q[gi].loaderTasks) :
       SameItem(gi, k) =>
         LET x == Q[gi].loaderTasks[k]
             y == Q'[gi].loaderTasks[k]
         IN (/\ FoundChanged(x)
             /\ x.pc = "deleteLoader"
             /\ y # x
             /\ faults' # faults) =>
              /\ y.pc = "returned"
              /\ y.value = <<ERROR_LOADER_RETURN>>
              /\ y.result = <<>>
              /\ y.backendCalls = 1
              /\ y.storeWrites = 0
              /\ document_metadata' = document_metadata
              /\ rag' = rag
              /\ x.kind = "file" =>
                   Q'[gi].loaderDoneReturn = <<ERROR_LOADER_RETURN>>]_vars

\* the delete of a changed file's old artifact failed; the item has returned
\* the sentinel and the old record is still in the table
C12_DeleteFailedRecordKept ==
  \E gi \in 1..Len(Q) : \E k \in 1..Len(Q[gi].loaderTasks) :
    LET item == Q[gi].loaderTasks[k]
    IN /\ FoundChanged(item)
       /\ item.pc = "returned"
       /\ item.value = <<ERROR_LOADER_RETURN>>
       /\ item.backendCalls = 1
       /\ item.storeWrites = 0
       /\ item.result = <<>>
       /\ faults = 1
       /\ getMetadataByPath(document_metadata[Q[gi].base], Q[gi].base,
                            item.path) = item.existingMetadata

---------------------------------------------------------------------------
(* Properties of the directory sync *)

\* the records of a table, below a directory, whose path a listing lacks
Unlisted(table, directory, currentFilePaths) ==
  LET gone(r) == Below(r.file_path, directory)
                 /\ r.file_path \notin currentFilePaths
  IN SelectSeq(table, gone)

\* the step resolves the add() of directory item g
ResolvesDirectory(g) ==
  /\ ~calls[g].settled
  /\ calls'[g].settled
  /\ calls[g].type = "directory"

RowsGone(before, after) ==
  {before[i] : i \in 1..Len(before)} \ {after[i] : i \in 1..Len(after)}

\* C14: with forceReload, a file that has a stored record is never skipped:
\* its stored unique id is deleted from the backend, then the file is added
\* again, whether or not its hash matches the record; and the records of a
\* directory are cleared only with the backend delete of their unique ids.
C14_ForceReloadDeletesThenReadds ==
  [][\A gi \in 1..Len(Q) : \A k \in 1..Len(Q[gi].loaderTasks) :
       SameItem(gi, k) =>
         LET x == Q[gi].loaderTasks[k]
             y == Q'[gi].loaderTasks[k]
             base == Q[gi].base
         IN (Q[gi].forceReload /\ y # x /\ faults' = faults) =>
              /\ (/\ x.kind \in FileKinds
                  /\ x.pc = "getMetadataByPath"
                  /\ y.existingMetadata # <<>>) => y.pc = "deleteLoader"
              /\ (x.kind \in FileKinds /\ x.pc = "deleteLoader") =>
                   /\ x.existingMetadata[1].unique_id_embedjs \notin rag'[base]
                   /\ y.pc = "deleteMetadataByEmbedjsUniqueId"
              /\ (/\ x.kind \in FileKinds
                  /\ y.pc = "addFileLoader"
                  /\ y.existingMetadata # <<>>) =>
                   x.pc = "deleteMetadataByEmbedjsUniqueId"
              /\ x.kind = "pretask" =>
                   \A r \in RowsGone(file_metadata[base], file_metadata'[base]) :
                     r.embedjs_unique_id \notin rag'[base]]_vars

\* what the add() of the first directory sync leaves when it resolves: every
\* listed file added once, one record per file, nothing deleted
AllListedAdded(g) ==
  LET task == GroupOf(g)
      table == document_metadata'[task.base]
      ids == calls'[g].value[1].uniqueIds
  IN /\ calls'[g].value[1].entriesAdded = task.totalFiles
     /\ Len(ids) = task.totalFiles
     /\ Len(table) = task.totalFiles
     /\ \A p \in task.currentFilePaths : HasKey(table, task.base, p)
     /\ rag'[task.base] = {ids[n] : n \in 1..Len(ids)}

Skipped(item) ==
  /\ item.pc = "returned"
  /\ item.value # <<>>
  /\ item.value[1].loaderType = "SkippedUnchanged"

\* C16: without forceReload, a file with a stored record is changed when its
\* content hash or its last-modified timestamp differs from the record, and
\* is skipped as unchanged only when both match.
C16_HashOrTimestampChanged ==
  \A gi \in 1..Len(Q) : \A k \in 1..Len(Q[gi].loaderTasks) :
    LET item == Q[gi].loaderTasks[k]
        record == item.existingMetadata[1]
    IN (/\ item.kind \in FileKinds
        /\ ~Q[gi].forceReload
        /\ item.existingMetadata # <<>>
        /\ Skipped(item)) =>
         /\ record.content_hash = item.fileHash
         /\ record.last_modified_timestamp = item.lastModified

\* the path an item is working on
PathInHand(item) ==
  IF item.kind = "delscan"
  THEN IF item.allMetadataInDir = <<>> THEN <<>>
       ELSE Head(item.allMetadataInDir).file_path
  ELSE item.path

\* C17: a step of an item that processes one file leaves the record of every
\* other path in the table and the artifact of every other path in the
\* backend.
C17_OtherFilesUntouched ==
  [][\A gi \in 1..Len(Q) : \A k \in 1..Len(Q[gi].loaderTasks) :
       SameItem(gi, k) =>
         LET x == Q[gi].loaderTasks[k]
             y == Q'[gi].loaderTasks[k]
             base == Q[gi].base
             table == document_metadata[base]
         IN (x.kind \in FileKinds \cup {"delscan"} /\ y # x) =>
              \A i \in 1..Len(table) :
                table[i].file_path # PathInHand(x) =>
                  /\ \E j \in 1..Len(document_metadata'[base]) :
                       document_metadata'[base][j] = table[i]
                  /\ table[i].unique_id_embedjs \in rag[base] =>
                       table[i].unique_id_embedjs \in rag'[base]]_vars

\* the step registers the task group of a directory add()
RegistersDirectory ==
  /\ Len(calls') = Len(calls) + 1
  /\ calls'[Len(calls')].type = "directory"
  /\ Len(Q') = Len(Q) + 1

---------------------------------------------------------------------------
(* Properties of items larger than the workload cap *)

Oversized(item) == item.workload > MAXIMUM_WORKLOAD

OversizedRegistered ==
  \E gi \in 1..Len(Q) : \E k \in 1..Len(Q[gi].loaderTasks) :
    Oversized(Q[gi].loaderTasks[k])

\* C19: an item whose estimate alone exceeds MAXIMUM_WORKLOAD does not stay
\* in the scheduler: whatever groups are queued with it, it is admitted, its
\* group empties and the add() of its group resolves.
C19_OversizedEventuallyDone ==
  <>[](/\ ~OversizedRegistered
       /\ \A g \in 1..Len(calls) : calls[g].type = "file" => calls[g].settled)

\* a 100 MB file was submitted behind a group that is still running, and has
\* been admitted
C19_OversizedAdmittedBehindOther ==
  /\ Len(Q) = 2
  /\ Q[1].loaderTasks[1].state = PROCESSING
  /\ ~Oversized(Q[1].loaderTasks[1])
  /\ Q[2].loaderTasks[1].state = PROCESSING
  /\ Oversized(Q[2].loaderTasks[1])
  /\ Q[2].loaderTasks[1].size = 100 * MB

\* C20: while an item whose estimate exceeds MAXIMUM_WORKLOAD is PROCESSING,
\* no other item is PROCESSING.
C20_OversizedRunsAlone ==
  \A i \in 1..Len(ProcessingItems) :
    Oversized(ProcessingItems[i]) => Len(ProcessingItems) = 1

---------------------------------------------------------------------------
(* Properties of the metadata stores *)

LastCall == calls[Len(calls)]

\* the rows of a base whose file_path starts with the directory path
\* followed by the separator, in rowid order
RecordsInside(table, kb, directory_path) ==
  LET prefix == IF directory_path # <<>>
                   /\ directory_path[Len(directory_path)] = SEP
                THEN directory_path ELSE directory_path \o <<SEP>>
      Inside(r) == r.knowledge_base_id = kb /\ IsPrefix(prefix, r.file_path)
  IN SelectSeq(table, Inside)

\* C21: a directory query returns exactly the records of the base whose
\* file_path starts with the directory path followed by the separator:
\* none outside the directory, every one inside it, whatever characters
\* and letter case the directory name has.
C21_DirectoryQueryExact ==
  (calls # <<>> /\ LastCall.type = "getMetadataByDirectoryPath") =>
    LastCall.value =
      RecordsInside(document_metadata[LastCall.input.knowledge_base_id],
                    LastCall.input.knowledge_base_id,
                    LastCall.input.directory_path)

SameKey(a, b) ==
  a.knowledge_base_id = b.knowledge_base_id /\ a.file_path = b.file_path

RowsOfKey(table, key) == {i \in DOMAIN table : SameKey(table[i], key)}

---------------------------------------------------------------------------
(* Properties of remove() and reset() *)

Ids(seq) == {seq[n] : n \in 1..Len(seq)}

\* the step on which the call c of remove() or reset() returns to its
\* caller without an error
Returns(c, type) ==
  /\ c <= Len(calls)
  /\ calls[c].type = type
  /\ ~calls[c].settled
  /\ calls'[c].settled
  /\ calls'[c].pc = "returned"

\* the unique ids held by the records of a base, in either store
RecordedIds(docs, files, base) ==
  {docs[base][i].unique_id_embedjs : i \in DOMAIN docs[base]}
    \cup {files[base][i].embedjs_unique_id : i \in DOMAIN files[base]}

\* C23: remove(uniqueId, uniqueIds, base) calls the backend's delete once
\* for every id of uniqueIds, and when it returns without an error no
\* record of the base holds an id of uniqueIds.
C23_RemoveLeavesNoRecord ==
  [][\A c \in 1..MaxAdds :
       Returns(c, "remove") =>
         /\ calls'[c].deleteLoaderCalls = calls[c].uniqueIds
         /\ RecordedIds(document_metadata', file_metadata', calls[c].base)
              \cap Ids(calls[c].uniqueIds) = {}]_vars

\* C24: reset(base) clears what the backend has indexed for the base and
\* changes no record of either store and nothing of the scheduler; the call
\* of reset() itself changes nothing but its own promise.
C24_ResetClearsBackendOnly ==
  [][\A c \in 1..MaxAdds :
       /\ Returns(c, "reset") =>
            /\ rag'[calls[c].base] = {}
            /\ document_metadata' = document_metadata
            /\ file_metadata' = file_metadata
            /\ Q' = Q
            /\ workload' = workload
            /\ processingItemCount' = processingItemCount
            /\ \A g \in 1..Len(calls) : g # c => calls'[g] = calls[g]
       /\ (Len(calls') = c /\ Len(calls) = c - 1 /\ calls'[c].type = "reset") =>
            /\ rag' = rag
            /\ document_metadata' = document_metadata
            /\ file_metadata' = file_metadata
            /\ Q' = Q
            /\ workload' = workload
            /\ processingItemCount' = processingItemCount]_vars

\* reset() has returned for a base that has a record and a task under way
C24_ResetWithRecordsAndTask ==
  \E c \in 1..Len(calls) :
    /\ calls[c].type = "reset"
    /\ calls[c].settled
    /\ calls[c].pc = "returned"
    /\ document_metadata[calls[c].base] # <<>>
    /\ rag[calls[c].base] = {}
    /\ Q # <<>>
    /\ processingItemCount > 0

---------------------------------------------------------------------------
(* Properties of directory submissions *)

SameGroup(gi) ==
  gi <= Len(Q) /\ gi <= Len(Q') /\ Q'[gi].gid = Q[gi].gid

ProgressMessage(task, n) ==
  [totalFilesCount |-> task.totalFiles, processedFilesCount |-> n]

AtListedFile(task, item) ==
  \/ item.kind \in {"dirfile", "fullfile"}
  \/ item.kind = "scan" /\ item.fileIndex \in 1..Len(task.files)

\* C26: in a directory submission the failure of one file stays with that
\* file: the unit of work that met it is not left rejected (it goes on, so
\* that its item can complete and add() can resolve), no sibling item is
\* touched, and the aggregate result gains nothing for the failed file.
C26_FailedFileLeavesSiblings ==
  [][\A gi \in 1..MaxAdds : \A k \in 1..3 :
       (/\ gi <= Len(Q)
        /\ k <= Len(Q[gi].loaderTasks)
        /\ SameItem(gi, k)
        /\ calls[Q[gi].gid].type = "directory"
        /\ AtListedFile(Q[gi], Q[gi].loaderTasks[k])
        /\ Q[gi].loaderTasks[k].state = PROCESSING
        /\ Q'[gi].loaderTasks[k] # Q[gi].loaderTasks[k]
        /\ faults' # faults) =>
         /\ Q'[gi].loaderTasks[k].pc # "rejected"
         /\ Q'[gi].loaderDoneReturn = Q[gi].loaderDoneReturn
         /\ \A j \in 1..Len(Q[gi].loaderTasks) :
              j # k => Q'[gi].loaderTasks[j] = Q[gi].loaderTasks[j]]_vars

\* the item's unit of work is under way: admitted and not yet returned
UnitUnderWay(item) == item.state = PROCESSING /\ item.pc # "returned"

\* C27: a single writer per file path: never are two items that read and
\* write the record of the same knowledge base and file path under way at
\* the same time, whatever add() calls overlap.
C27_SingleWriterPerPath ==
  \A gi \in 1..Len(Q), gj \in 1..Len(Q) :
    \A k \in 1..Len(Q[gi].loaderTasks), l \in 1..Len(Q[gj].loaderTasks) :
      LET x == Q[gi].loaderTasks[k]
          y == Q[gj].loaderTasks[l]
      IN (/\ x.kind \in FileKinds /\ y.kind \in FileKinds
          /\ Q[gi].base = Q[gj].base
          /\ x.path = y.path
          /\ UnitUnderWay(x) /\ UnitUnderWay(y)) => (gi = gj /\ k = l)

\* C28: the aggregate of a directory add lists the unique ids of its files
\* in the order of the directory listing: when a single add() of a directory
\* resolves after no failure, with one id per listed file, the i-th id is
\* the id recorded for the i-th listed file.
C28_IdsInListingOrder ==
  [][\A g \in 1..Len(calls) :
       (/\ ResolvesDirectory(g)
        /\ Len(calls') = 1
        /\ faults' = 0
        /\ Len(calls'[g].value[1].uniqueIds) = Len(GroupOf(g).files)) =>
         LET ids == calls'[g].value[1].uniqueIds
             files == GroupOf(g).files
             table == document_metadata'[GroupOf(g).base]
         IN \A i \in 1..Len(files) :
              \E r \in 1..Len(table) :
                /\ table[r].file_path = files[i].path
                /\ table[r].unique_id_embedjs = ids[i]]_vars

---------------------------------------------------------------------------
(* Properties of the item state machine *)

\* the item idx of group gid in a queue: a sequence of one item, or none
ItemOf(queue, gid, idx) ==
  LET Mine(item) == item.idx = idx
      OfGroup(task) == task.gid = gid
      groups == SelectSeq(queue, OfGroup)
  IN IF groups = <<>> THEN <<>>
     ELSE SelectSeq(groups[1].loaderTasks, Mine)

\* C29: an item moves only from PENDING to PROCESSING and from there out of
\* its group.  A PENDING item stays as it is or is admitted, which changes
\* nothing but its state; a PROCESSING item stays PROCESSING until it is
\* removed, is removed only after its unit of work has returned, and is
\* counted once however often the queue is scanned; an item that appears
\* belongs to the add() of that step.
C29_PendingProcessingRemoved ==
  [][/\ \A gi \in 1..Len(Q) : \A k \in 1..Len(Q[gi].loaderTasks) :
          LET x == Q[gi].loaderTasks[k]
              after == ItemOf(Q', Q[gi].gid, x.idx)
          IN /\ Len(after) <= 1
             /\ after = <<>> => (x.state = PROCESSING /\ x.pc = "returned")
             /\ after # <<>> =>
                  /\ x.state = PROCESSING => after[1].state = PROCESSING
                  /\ x.state = PENDING =>
                       \/ after[1] = x
                       \/ after[1] = [x EXCEPT !.state = PROCESSING]
                  /\ after[1].pc # x.pc => x.state = PROCESSING
     /\ \A gj \in 1..Len(Q') : \A l \in 1..Len(Q'[gj].loaderTasks) :
          ItemOf(Q, Q'[gj].gid, Q'[gj].loaderTasks[l].idx) = <<>> =>
            /\ Len(calls') = Len(calls) + 1
            /\ Q'[gj].gid = Len(calls')
            /\ Q'[gj].loaderTasks[l].state \in {PENDING, PROCESSING}
            /\ Q'[gj].loaderTasks[l].backendCalls = 0
            /\ Q'[gj].loaderTasks[l].storeWrites = 0
     /\ processingItemCount' = Len(ProcessingItems')]_vars

\* a directory group has lost an item to a completion, whose scan ran while
\* a sibling was PROCESSING in the middle of its unit of work and another
\* group held a PENDING item
C29_ScannedWhileProcessing ==
  \E gi \in 1..Len(Q), gj \in 1..Len(Q) :
    /\ gi # gj
    /\ Q[gi].totalFiles = 2
    /\ Len(Q[gi].loaderTasks) = 2
    /\ \E k \in 1..2 : /\ Q[gi].loaderTasks[k].state = PROCESSING
                       /\ Q[gi].loaderTasks[k].backendCalls = 1
    /\ \E l \in 1..Len(Q[gj].loaderTasks) : Q[gj].loaderTasks[l].state = PENDING

---------------------------------------------------------------------------
(* Properties of the records' unique ids *)

\* C30: within a knowledge base no two records hold the same unique id of
\* the embedding backend, in either store, whatever ids the backend returns.
C30_UniqueIdOncePerBase ==
  \A b \in Bases :
    /\ \A i \in 1..Len(document_metadata[b]), j \in 1..Len(document_metadata[b]) :
         document_metadata[b][i].unique_id_embedjs =
           document_metadata[b][j].unique_id_embedjs => i = j
    /\ \A i \in 1..Len(file_metadata[b]), j \in 1..Len(file_metadata[b]) :
         file_metadata[b][i].embedjs_unique_id =
           file_metadata[b][j].embedjs_unique_id => i = j

---------------------------------------------------------------------------
(* Properties of the workload estimates *)

SingleItemTypes == {"file", "url", "sitemap", "note"}

\* the UTF-8 encodings of the note texts, byte by byte
Utf8Bytes(text) ==
  CASE text = NoteAB -> <<97, 98>>
    [] text = NoteEAcute -> <<195, 169>>
    [] text = NoteEmoji -> <<240, 159, 152, 128>>

\* C31: the group of a file, url, sitemap or note add holds exactly one item
\* from its registration to its removal, and the item's estimate is the file
\* size in bytes, 2 MB, 20 MB and the number of UTF-8 bytes of the note text;
\* the estimate is the same before and after the backend has answered.
C31_OneItemWithEstimate ==
  \A gi \in 1..Len(Q) :
    LET task == Q[gi]
        type == calls[task.gid].type
        item == task.loaderTasks[1]
    IN type \in SingleItemTypes =>
         /\ Len(task.loaderTasks) = 1
         /\ type = "file" => item.workload = DiskSize(item.path)
         /\ type = "url" => item.workload = 2 * MB
         /\ type = "sitemap" => item.workload = 20 * MB
         /\ type = "note" => item.workload = Len(Utf8Bytes(task.content))

\* a note whose text has fewer code units than bytes is registered beside a
\* url item whose fetch has been answered
C31_NoteAndFetchedUrl ==
  \E gi \in 1..Len(Q), gj \in 1..Len(Q) :
    /\ calls[Q[gi].gid].type = "note"
    /\ Q[gi].content = NoteEAcute
    /\ Q[gi].loaderTasks[1].workload = 2
    /\ calls[Q[gj].gid].type = "url"
    /\ Q[gj].loaderTasks[1].pc = "returned"
    /\ Q[gj].loaderTasks[1].value = <<LoaderResult("u1", "WebLoader")>>
    /\ Q[gj].loaderTasks[1].workload = 2 * MB

---------------------------------------------------------------------------
(* Properties of the admission scan *)

\* the items of a queue in scan order, each with the gid of its group
RECURSIVE ScanOrder(_)
ScanOrder(queue) ==
  IF queue = <<>> THEN <<>>
  ELSE LET task == Head(queue)
       IN [k \in 1..Len(task.loaderTasks) |->
             [gid |-> task.gid, item |-> task.loaderTasks[k]]]
          \o ScanOrder(Tail(queue))

\* the entry is PROCESSING after the step and was PENDING, or not yet
\* registered, before it
AdmittedNow(e) ==
  /\ e.item.state = PROCESSING
  /\ LET before == ItemOf(Q, e.gid, e.item.idx)
     IN before = <<>> \/ before[1].state = PENDING

RECURSIVE SumEstimates(_)
SumEstimates(entries) ==
  IF entries = <<>> THEN 0
  ELSE Head(entries).item.workload + SumEstimates(Tail(entries))

\* C32: the scan goes through the groups in registration order and through
\* the items of a group in item order; what a step admits is a prefix of the
\* PENDING items in that order (nothing that precedes an admitted item is
\* left PENDING); each item is admitted while neither cap is reached; and
\* when the scan leaves an item PENDING a cap is reached, and every item
\* behind the stopping point is as it was.
C32_AdmittedPrefixInScanOrder ==
  [][LET order == ScanOrder(Q')
         admitted == SelectSeq(order, AdmittedNow)
         n == Len(admitted)
     IN /\ \A i \in 1..Len(order), j \in 1..Len(order) :
             i < j =>
               /\ order[i].gid <= order[j].gid
               /\ order[i].gid = order[j].gid =>
                    order[i].item.idx < order[j].item.idx
        /\ \A i \in 1..Len(order), j \in 1..Len(order) :
             (i < j /\ AdmittedNow(order[j])) => order[i].item.state # PENDING
        /\ \A j \in 1..n :
             ~maximumLoad(processingItemCount' - n + j - 1,
                          workload' - SumEstimates(SubSeq(admitted, j, n)))
        /\ (n > 0 /\ PendingItems' # <<>>) =>
             maximumLoad(processingItemCount', workload')
        /\ \A i \in 1..Len(order) :
             order[i].item.state = PENDING =>
               LET before == ItemOf(Q, order[i].gid, order[i].item.idx)
               IN before = <<>> \/ before[1] = order[i].item]_vars

\* a scan has admitted the first two items of a directory and stopped at the
\* item cap in the middle of the group, ahead of a group registered later
C32_StoppedInsideGroup ==
  /\ Len(Q) = 2
  /\ Len(Q[1].loaderTasks) = 3
  /\ Q[1].loaderTasks[1].state = PROCESSING
  /\ Q[1].loaderTasks[2].state = PROCESSING
  /\ Q[1].loaderTasks[3].state = PENDING
  /\ Q[2].loaderTasks[1].state = PENDING
  /\ processingItemCount = MAXIMUM_PROCESSING_ITEM_COUNT

---------------------------------------------------------------------------
(* Properties of the deletion scan *)

\* the unique id is the artifact of a file of the listing: a record of a
\* listed path holds it, or a sibling item has it from the backend and is
\* about to write the record
ArtifactOfListed(task, table, uid) ==
  \/ \E i \in 1..Len(table) :
       /\ table[i].file_path \in task.currentFilePaths
       /\ table[i].unique_id_embedjs = uid
  \/ \E l \in 1..Len(task.loaderTasks) :
       /\ task.loaderTasks[l].kind = "dirfile"
       /\ task.loaderTasks[l].pc = "addOrUpdateMetadata"
       /\ task.loaderTasks[l].result[1].uniqueId = uid

\* C33: however the deletion scan interleaves with the per-file items of its
\* submission, a step of the scan leaves the record of every listed path in
\* the table and removes no artifact of a listed file from the backend.
C33_ScanSparesListedFiles ==
  [][\A gi \in 1..Len(Q) : \A k \in 1..Len(Q[gi].loaderTasks) :
       SameItem(gi, k) =>
         LET task == Q[gi]
             x == task.loaderTasks[k]
             y == Q'[gi].loaderTasks[k]
             base == task.base
             table == document_metadata[base]
         IN (x.kind = "delscan" /\ y # x /\ x.state = PROCESSING) =>
              /\ \A i \in 1..Len(table) :
                   table[i].file_path \in task.currentFilePaths =>
                     \E j \in 1..Len(document_metadata'[base]) :
                       document_metadata'[base][j] = table[i]
              /\ \A uid \in rag[base] \ rag'[base] :
                   ~ArtifactOfListed(task, table, uid)]_vars

---------------------------------------------------------------------------
(* Properties of the records' references *)

\* no item is PROCESSING and no call of the service is under way
Quiescent ==
  /\ ProcessingItems = <<>>
  /\ \A c \in 1..Len(calls) :
       calls[c].type \in {"remove", "reset"} => calls[c].settled

\* C34: in every quiescent state reached without a failing backend or store
\* call, the unique id of every record names an artifact the backend holds.
C34_RecordsNameArtifacts ==
  (Quiescent /\ faults = 0) =>
    \A b \in Bases :
      /\ \A i \in 1..Len(document_metadata[b]) :
           document_metadata[b][i].unique_id_embedjs \in rag[b]
      /\ \A i \in 1..Len(file_metadata[b]) :
           file_metadata[b][i].embedjs_unique_id \in rag[b]

---------------------------------------------------------------------------
(* Properties of the scheduler's use of its capacity *)

\* C35: between two events of the scheduler, an item is PENDING only while a
\* cap is reached: the number of PROCESSING items is at its maximum or the
\* workload in flight is; no item is PENDING while no item is PROCESSING.
C35_PendingOnlyAtCap ==
  PendingItems # <<>> =>
    /\ \/ processingItemCount >= MAXIMUM_PROCESSING_ITEM_COUNT
       \/ workload >= MAXIMUM_WORKLOAD
    /\ ProcessingItems # <<>>

\* after a group has completed, an item waits behind the workload cap alone:
\* one item is PROCESSING, and the item cap would let another in
C35_WaitingBehindWorkloadCap ==
  /\ PendingItems # <<>>
  /\ Len(ProcessingItems) = 1
  /\ processingItemCount < MAXIMUM_PROCESSING_ITEM_COUNT
  /\ workload >= MAXIMUM_WORKLOAD
  /\ \E g \in 1..Len(calls) : calls[g].settled /\ calls[g].type = "directory"

---------------------------------------------------------------------------
(* Properties of the aggregate result of a directory *)

\* C36: the uniqueIds of the aggregate a directory add() resolves with are
\* unique ids handed out by the backend: none is a file path, none is empty.
C36_AggregateHoldsBackendIds ==
  \A g \in 1..Len(calls) :
    (/\ calls[g].type = "directory"
     /\ calls[g].settled
     /\ calls[g].value # <<ERROR_LOADER_RETURN>>) =>
      \A n \in 1..Len(calls[g].value[1].uniqueIds) :
        /\ calls[g].value[1].uniqueIds[n] \in Uids
        /\ calls[g].value[1].uniqueIds[n] # ""
        /\ \A p \in FilePaths : calls[g].value[1].uniqueIds[n] # PathName(p)

---------------------------------------------------------------------------
(* Properties of the record writes *)

\* an item at work holds a valid result of the backend add with this id
ValidAddInHand(uid) ==
  \E gi \in 1..Len(Q) : \E k \in 1..Len(Q[gi].loaderTasks) :
    LET x == Q[gi].loaderTasks[k]
    IN /\ x.state = PROCESSING
       /\ x.result # <<>>
       /\ validResult(x.result[1])
       /\ x.result[1].uniqueId = uid

\* C37: a record is written only by an item whose backend add returned a
\* result with non-empty uniqueId and loaderType; no record of either table
\* ever holds an empty unique id; a step in which a call fails or returns an
\* invalid result writes nothing.
C37_RecordOnlyAfterValidAdd ==
  /\ [](\A b \in Bases :
          /\ \A i \in 1..Len(document_metadata[b]) :
               document_metadata[b][i].unique_id_embedjs # ""
          /\ \A i \in 1..Len(file_metadata[b]) :
               file_metadata[b][i].embedjs_unique_id # "")
  /\ [][\A b \in Bases :
          /\ \A j \in 1..Len(document_metadata'[b]) :
               (\A i \in 1..Len(document_metadata[b]) :
                   document_metadata[b][i] # document_metadata'[b][j]) =>
                 /\ ValidAddInHand(document_metadata'[b][j].unique_id_embedjs)
                 /\ faults' = faults
          /\ \A j \in 1..Len(file_metadata'[b]) :
               (\A i \in 1..Len(file_metadata[b]) :
                   file_metadata[b][i] # file_metadata'[b][j]) =>
                 /\ ValidAddInHand(file_metadata'[b][j].embedjs_unique_id)
                 /\ faults' = faults]_vars

---------------------------------------------------------------------------
(* Properties of the full refresh *)

\* the group still holds its metadata-clearing item with the delete to come
ClearingToCome(task) ==
  \E l \in 1..Len(task.loaderTasks) :
    /\ task.loaderTasks[l].kind = "pretask"
    /\ task.loaderTasks[l].pc = "deleteDirectoryMetadata"

---------------------------------------------------------------------------
(* Properties of a failed deletion *)

\* C39: when deleteLoader fails in the deletion scan for a file that is gone
\* from the directory, the scan makes no store call for it and the step
\* leaves table and backend as they are, so the record of that file stays as
\* it was; the scan item returns the error sentinel to the scheduler and is
\* never left rejected; and the add() of every directory is resolved in the
\* end.
C39_FailedDeleteKeepsRecord ==
  /\ [][\A gi \in 1..Len(Q) : \A k \in 1..Len(Q[gi].loaderTasks) :
          SameItem(gi, k) =>
            LET task == Q[gi]
                x == task.loaderTasks[k]
                y == Q'[gi].loaderTasks[k]
                gone == Head(x.allMetadataInDir)
            IN /\ (x.kind = "delscan" /\ x.state = PROCESSING) =>
                    y.pc # "rejected"
               /\ (/\ x.kind = "delscan"
                   /\ x.state = PROCESSING
                   /\ x.pc = "deleteLoader"
                   /\ y # x
                   /\ faults' # faults) =>
                    /\ gone.file_path \notin task.currentFilePaths
                    /\ document_metadata' = document_metadata
                    /\ rag' = rag
                    /\ y.storeWrites = x.storeWrites
                    /\ y.state = PROCESSING
                    /\ y.pc = "returned"
                    /\ y.value = <<ERROR_LOADER_RETURN>>
                    /\ ~calls'[task.gid].settled]_vars
  /\ <>[](\A g \in 1..Len(calls) :
            calls[g].type = "directory" => calls[g].settled)

\* the scan of a second sync has met the record of a file that is gone from
\* disk, its deleteLoader has failed, and the scan has returned the sentinel
\* as the last item of its group: record and artifact are still there
C39_ScanFailedRecordLeft ==
  /\ ~disk[FileB].present
  /\ Len(calls) = 2
  /\ Len(Q) = 1
  /\ Q[1].gid = 2
  /\ Len(Q[1].loaderTasks) = 1
  /\ LET x == Q[1].loaderTasks[1]
     IN /\ x.kind = "delscan"
        /\ x.pc = "returned"
        /\ x.value = <<ERROR_LOADER_RETURN>>
        /\ x.backendCalls = 1
        /\ x.storeWrites = 0
        /\ x.allMetadataInDir # <<>>
        /\ Head(x.allMetadataInDir).file_path = FileB
        /\ getMetadataByPath(document_metadata["kb1"], "kb1", FileB) =
             <<Head(x.allMetadataInDir)>>
        /\ Head(x.allMetadataInDir).unique_id_embedjs \in rag["kb1"]

=============================================================================
